---------------------------- MODULE Spec2Model ----------------------------
(***************************************************************************)
(* Verification model of animepahe-dl (src/pahe-dl.py, src/v2/pahe-dl.py). *)
(*                                                                         *)
(* The module holds one state machine per component of the program, each   *)
(* with its own specification over the shared variable tuple:              *)
(*   SpecThrottle  RequestThrottler          (src/v2/pahe-dl.py)           *)
(*   SpecPool      BrowserPool               (src/v2/pahe-dl.py)           *)
(*   SpecPoolClose BrowserPool with close_all running beside the workers   *)
(*   SpecQuality   quality selection of _extract_download_links            *)
(*   SpecDetect    _wait_for_download_complete (src/pahe-dl.py)            *)
(*   SpecFetch     fetch_episodes (FairSpecFetch: weak fairness)           *)
(*   SpecOrch      download / download_episodes batch orchestrators        *)
(*   SpecDownloadFile  _download_file       (src/v2/pahe-dl.py)            *)
(*   SpecReq       _req (FairSpecReq: weak fairness)                       *)
(*   SpecPipe      download_episode / _download_episode pipeline           *)
(*   SpecKwik      _handle_kwik_download     (src/pahe-dl.py)              *)
(*   SpecEpage     episode-page fetch of _extract_download_links           *)
(*   SpecMain      main and download         (src/v2/pahe-dl.py)           *)
(*   SpecDrive     browser commands of the parallel workers (v2)           *)
(* A component's actions leave the variables of the other components       *)
(* unchanged.                                                              *)
(***************************************************************************)
EXTENDS Integers, Sequences, FiniteSets, TLC

VARIABLES
    \* ---- RequestThrottler (src/v2/pahe-dl.py:53-80)
    clock,        \* time.time(), in seconds
    tokens,       \* self.tokens, in units of 1/TokenScale token
    last_time,    \* self.last_time
    thr_lock,     \* self.lock: the thread holding it, or NoThread
    thr_pc,       \* position of each thread inside wait_for_token
    thr_wake,     \* for a sleeping thread: the earliest time time.sleep returns
    thr_calls,    \* number of wait_for_token calls started
    consumed,     \* the time of each token consumption, as read by the call, oldest first
    thr_access,   \* did every access to tokens/last_time so far hold the lock
    \* ---- BrowserPool (src/v2/pahe-dl.py:82-207)
    available,    \* self.available: deque of (browser, dl_dir) leases, oldest first
    in_use,       \* self.in_use: set of (browser, dl_dir) leases
    pool_lock,    \* self.lock: the worker holding it, or NoThread
    creation_lock,\* self.creation_lock: the worker holding it, or NoThread
    pool_pc,      \* position of each worker in get_browser / return_browser
    lease,        \* the (browser, dl_dir) a worker got, creates or returns
    br_state,     \* per browser instance: none, creating, live, closing, closed,
                  \* quit_raised (quit() was called and raised)
    created,      \* number of browser instances _create_browser was called for
    \* ---- quality selection of _extract_download_links
    q_page,       \* the episode page: its #pickDownload menu, or NoMenu
    quality_pref, \* the requested quality
    prefer_dub,   \* the audio preference (src/pahe-dl.py only)
    q_result,     \* src/pahe-dl.py: Pending, or the selected key and the returned url
    q_result_v2,  \* src/v2/pahe-dl.py: Pending, or the selected resolution and url
    \* ---- _wait_for_download_complete (src/pahe-dl.py:468-520)
    d_files,      \* the download directory: file name -> file (or NoFile)
    d_dir0,       \* the names in the directory when the detector was called
    d_now,        \* time.time() - start_time, in seconds
    d_pc,         \* polling, or done
    d_ret,        \* the detector's return value once done
    d_moved,      \* the rename the detector made (NoMove if none)
    d_dl,         \* the browser's download: none, marker, inplace, finished
    d_report,     \* what _handle_kwik_download makes of the wait: NoVerdict, or how the
                  \* wait ended and the value the episode's download stage returns
    \* ---- fetch_episodes (src/pahe-dl.py:183-213, src/v2/pahe-dl.py:376-419)
    f_ver,        \* the implementation that runs
    f_start,      \* start
    f_end,        \* end
    f_page,       \* page
    f_last_page,  \* last_page (v2), NoLastPage for None
    f_reqs,       \* the pages requested with _req so far, in order
    f_resps,      \* kind and last_page of the responses processed so far
    f_listed,     \* the entries listed on the pages processed so far
    f_eps,        \* eps: episode number -> session token of its play URL
    f_pc,         \* idle, loop, wait (a request is outstanding), done, raised
    \* ---- orchestrators: download (src/pahe-dl.py), download_episodes (v2)
    o_ver,        \* the implementation that runs
    o_files,      \* per episode: its output file (absent, empty, nonempty)
    o_seen,       \* per episode: the file as the orchestrator found it
    o_outcome,    \* per episode: pending, running, skipped, ok, failed, raised
    o_idx,        \* download: position in sorted(eps.items())
    o_success,    \* download: success
    o_report,     \* the final log line of the batch
    o_trace,      \* download: the skips, pipeline runs and delays, in order
    o_pc,         \* idle, start, loop (serial), pool (parallel), done
    o_lease,      \* v2: the browser each episode's _download_episode holds, or NoBrowser
    o_idle,       \* v2: the browsers idle in self.browser_pool
    o_made,       \* v2: the browsers the pool has created for the batch
    \* ---- _download_file (src/v2/pahe-dl.py:796-856)
    df_out,       \* output_path: absent, old (of an earlier run), new
    df_part,      \* output_path + '.part': absent, stale, partial, complete
    df_out0,      \* output_path before the call
    df_part0,     \* output_path + '.part' before the call
    df_bound,     \* has temp_path been assigned
    df_status,    \* the status of the response to the streaming GET
    df_chunks,    \* the number of chunks written
    df_wrote,     \* the paths stream data was written to
    df_raised,    \* did an exception reach the handler
    df_ret,       \* the return value: none, True, False
    df_pc,        \* idle, start, open, writing, rename, done
    \* ---- _req (src/pahe-dl.py:140-162, src/v2/pahe-dl.py:316-356)
    r_ver,        \* the implementation that runs
    r_attempt,    \* attempt + 1: the attempt of the retry loop, from 1
    r_log,        \* what _req did so far, in order
    r_ret,        \* the value returned: NoResponse before the return
    r_pc,         \* idle, call, get, browser, get2, done
    \* ---- download_episode (src/pahe-dl.py:641-658), _download_episode (v2)
    p_ver,        \* the implementation that runs
    p_nav,        \* the gateway navigation: ok, raise
    p_current_url,\* driver.current_url after the gateway navigation
    p_page,       \* the anchors of the gateway page, in document order
    p_trace,      \* the stages started so far with what each returned
    p_kwik,       \* kwik_link: the gateway stage's result
    p_lease,      \* v2: the browser lease of the run: none, held, returned
    p_returns,    \* v2: the calls of return_browser the run has made
    p_ret,        \* the value returned: none, True, False, raised
    p_pc,         \* idle, browser, extract, gateway, download, done
    \* ---- BrowserPool.close_all (src/v2/pahe-dl.py:185-207)
    ca_pc,        \* position of the thread calling close_all
    ca_browsers,  \* its local list `browsers`: the leases still to be quit
    ca_at_call,   \* the browsers that were idle or in use when close_all was called
    \* ---- _handle_kwik_download, _download_file (src/pahe-dl.py:340-451, 522-574)
    k_out,        \* output_path: absent, partial (opened, not written to its end), complete
    k_trace,      \* the strategies attempted so far, each with its outcome
    k_via,        \* the strategy that called _download_file: direct or post
    k_chunks,     \* chunks _download_file has written
    k_ret,        \* the value returned: none, True, False
    k_pc,         \* idle, open, form, click, anchor, stream, write, dl_failed, post,
                  \* response, post_write, parse, poll, done
    \* ---- _extract_download_links: fetch of the episode page (src/pahe-dl.py:215-235,
    \* ---- src/v2/pahe-dl.py:421-490), called for one episode after the other
    e_ver,        \* the implementation: "src/pahe-dl.py" or "src/v2/pahe-dl.py"
    e_call,       \* the number of the call, one per episode
    e_resp,       \* what self._req(episode_url) returned to the current call
    e_source,     \* the page parsed: none, http, browser (page_source), dom (live elements)
    e_log,        \* the HTTP requests, browser navigations and cookie transfers so far
    e_ret,        \* the value returned by the current call: none, link, None
    e_pc,         \* idle, req, fallback, parse, dom, done
    \* ---- main and download of src/v2/pahe-dl.py (lines 966-996, 1033-1068)
    m_caller,     \* who calls download: main, or a caller with the declared parameters
    m_eps,        \* the episode numbers fetch_episodes returns for the range
    m_exists,     \* the episodes whose output file exists
    m_outcome,    \* per episode: pending, skipped (no statement sets ok or failed)
    m_idx,        \* the episode the loop of download is at
    m_success,    \* the counter `success` of download
    m_err,        \* the exception that ended download: none, TypeError, AttributeError
    m_log,        \* the messages logged by main and download
    m_pc,         \* idle, search, call, download, loop, except, finally, done
    \* ---- browser commands of the parallel workers (src/v2/pahe-dl.py:316-347,
    \* ---- 421-441, 937-946)
    x_pc,         \* per worker: idle, req, primary_get, cookies, own_get, parse, done
    x_lease,      \* per worker: the browser get_browser handed to its task
    x_driving,    \* per worker: the browser a command of the worker is running on
    x_attempt     \* per worker: the attempt of the retry loop of _req

thrVars == <<clock, tokens, last_time, thr_lock, thr_pc, thr_wake, thr_calls,
             consumed, thr_access>>

poolVars == <<available, in_use, pool_lock, creation_lock, pool_pc, lease,
              br_state, created>>

qualVars == <<q_page, quality_pref, prefer_dub, q_result, q_result_v2>>

reportVars == <<d_report>>

detVars == <<d_files, d_dir0, d_now, d_pc, d_ret, d_moved, d_dl, reportVars>>

fetchVars == <<f_ver, f_start, f_end, f_page, f_last_page, f_reqs, f_resps,
               f_listed, f_eps, f_pc>>

leaseVars == <<o_lease, o_idle, o_made>>

orchVars == <<o_ver, o_files, o_seen, o_outcome, o_idx, o_success, o_report,
              o_trace, o_pc, leaseVars>>

dfVars == <<df_out, df_part, df_out0, df_part0, df_bound, df_status, df_chunks,
            df_wrote, df_raised, df_ret, df_pc>>

reqVars == <<r_ver, r_attempt, r_log, r_ret, r_pc>>

pipeVars == <<p_ver, p_nav, p_current_url, p_page, p_trace, p_kwik, p_lease,
              p_returns, p_ret, p_pc>>

closeVars == <<ca_pc, ca_browsers, ca_at_call>>

kwikVars == <<k_out, k_trace, k_via, k_chunks, k_ret, k_pc>>

epageVars == <<e_ver, e_call, e_resp, e_source, e_log, e_ret, e_pc>>

mainVars == <<m_caller, m_eps, m_exists, m_outcome, m_idx, m_success, m_err,
              m_log, m_pc>>

driveVars == <<x_pc, x_lease, x_driving, x_attempt>>

vars == <<thrVars, poolVars, qualVars, detVars, fetchVars, orchVars, dfVars,
          reqVars, pipeVars, closeVars, kwikVars, epageVars, mainVars,
          driveVars>>

NoThread == 0

\* The variables a component leaves alone.
notThrottler == <<poolVars, qualVars, detVars, fetchVars, orchVars, dfVars,
                  reqVars, pipeVars, closeVars, kwikVars, epageVars,
                  mainVars, driveVars>>
notPool == <<thrVars, qualVars, detVars, fetchVars, orchVars, dfVars,
             reqVars, pipeVars, closeVars, kwikVars, epageVars, mainVars,
             driveVars>>
notQuality == <<thrVars, poolVars, detVars, fetchVars, orchVars, dfVars,
                reqVars, pipeVars, closeVars, kwikVars, epageVars, mainVars,
                driveVars>>
notDetect == <<thrVars, poolVars, qualVars, fetchVars, orchVars, dfVars,
               reqVars, pipeVars, closeVars, kwikVars, epageVars, mainVars,
               driveVars>>
notFetch == <<thrVars, poolVars, qualVars, detVars, orchVars, dfVars,
              reqVars, pipeVars, closeVars, kwikVars, epageVars, mainVars,
              driveVars>>
notOrch == <<thrVars, poolVars, qualVars, detVars, fetchVars, dfVars,
             reqVars, pipeVars, closeVars, kwikVars, epageVars, mainVars,
             driveVars>>
notDownloadFile == <<thrVars, poolVars, qualVars, detVars, fetchVars,
                     orchVars, reqVars, pipeVars, closeVars, kwikVars,
                     epageVars, mainVars, driveVars>>
notReq == <<thrVars, poolVars, qualVars, detVars, fetchVars, orchVars,
            dfVars, pipeVars, closeVars, kwikVars, epageVars, mainVars,
            driveVars>>
notPipe == <<thrVars, poolVars, qualVars, detVars, fetchVars, orchVars,
             dfVars, reqVars, closeVars, kwikVars, epageVars, mainVars,
             driveVars>>
notCloseAll == <<thrVars, poolVars, qualVars, detVars, fetchVars, orchVars,
                 dfVars, reqVars, pipeVars, kwikVars, epageVars, mainVars,
                 driveVars>>
notKwik == <<thrVars, poolVars, qualVars, detVars, fetchVars, orchVars,
             dfVars, reqVars, pipeVars, closeVars, epageVars, mainVars,
             driveVars>>
notEpage == <<thrVars, poolVars, qualVars, detVars, fetchVars, orchVars,
              dfVars, reqVars, pipeVars, closeVars, kwikVars, mainVars,
              driveVars>>
notMain == <<thrVars, poolVars, qualVars, detVars, fetchVars, orchVars,
             dfVars, reqVars, pipeVars, closeVars, kwikVars, epageVars,
             driveVars>>
notDrive == <<thrVars, poolVars, qualVars, detVars, fetchVars, orchVars,
              dfVars, reqVars, pipeVars, closeVars, kwikVars, epageVars,
              mainVars>>
notPoolNorClose == <<thrVars, qualVars, detVars, fetchVars, orchVars, dfVars,
                     reqVars, pipeVars, kwikVars, epageVars, mainVars,
                     driveVars>>

(***************************************************************************)
(* RequestThrottler                                                        *)
(***************************************************************************)
\* Bounds of the throttler model.
NumThreads == 2
MaxTime == 8
MaxCalls == 6

Threads == 1..NumThreads

\* requests_per_minute as passed by AnimeDownloader.__init__, burst_capacity's
\* default, and the 60.0 of `self.rate = requests_per_minute / 60.0`.
RequestsPerMinute == 20
BurstCapacity == 3
TokenScale == 60

\* self.tokens is held scaled by TokenScale, so that one second of refill adds
\* rate * TokenScale = RequestsPerMinute units and one token is TokenScale units.
OneToken == TokenScale
Capacity == BurstCapacity * TokenScale

Min(a, b) == IF a <= b THEN a ELSE b

\* self.tokens = min(self.burst_capacity, self.tokens + time_passed * self.rate)
RefillNoCap(tok, time_passed) == tok + time_passed * RequestsPerMinute
Refill(tok, time_passed) == Min(Capacity, tok + time_passed * RequestsPerMinute)

\* wait_time = (1 - self.tokens) / self.rate, rounded up to the clock's grain
WaitTime(tok) == ((OneToken - tok) + RequestsPerMinute - 1) \div RequestsPerMinute

ThrottlerInit ==
    /\ clock = 0
    /\ tokens = Capacity
    /\ last_time = 0
    /\ thr_lock = NoThread
    /\ thr_pc = [t \in Threads |-> "idle"]
    /\ thr_wake = [t \in Threads |-> 0]
    /\ thr_calls = 0
    /\ consumed = <<>>
    /\ thr_access = TRUE

\* Time passes.
Tick ==
    /\ clock < MaxTime
    /\ clock' = clock + 1
    /\ UNCHANGED <<tokens, last_time, thr_lock, thr_pc, thr_wake, thr_calls,
                   consumed, thr_access>>
    /\ UNCHANGED notThrottler

\* A thread calls wait_for_token() and reaches `with self.lock`.
CallWaitForToken(t) ==
    /\ thr_pc[t] = "idle"
    /\ thr_calls < MaxCalls
    /\ thr_calls' = thr_calls + 1
    /\ thr_pc' = [thr_pc EXCEPT ![t] = "acquire"]
    /\ UNCHANGED <<clock, tokens, last_time, thr_lock, thr_wake, consumed, thr_access>>
    /\ UNCHANGED notThrottler

\* `with self.lock:` entered without taking the lock.
AcquireNoLock(t) ==
    /\ thr_pc[t] = "acquire"
    /\ thr_pc' = [thr_pc EXCEPT ![t] = "locked"]
    /\ UNCHANGED <<clock, tokens, last_time, thr_lock, thr_wake, thr_calls,
                   consumed, thr_access>>
    /\ UNCHANGED notThrottler

\* `with self.lock:` the thread blocks until the lock is free and takes it.
Acquire(t) ==
    /\ thr_pc[t] = "acquire"
    /\ thr_lock = NoThread
    /\ thr_lock' = t
    /\ thr_pc' = [thr_pc EXCEPT ![t] = "locked"]
    /\ UNCHANGED <<clock, tokens, last_time, thr_wake, thr_calls, consumed, thr_access>>
    /\ UNCHANGED notThrottler

\* Lines 65-70: read the clock, set last_time, refill the bucket.
RefillTokens(t) ==
    /\ thr_pc[t] = "locked"
    /\ tokens' = Refill(tokens, clock - last_time)
    /\ last_time' = clock
    /\ thr_access' = (thr_access /\ thr_lock = t)
    /\ thr_pc' = [thr_pc EXCEPT ![t] = "refilled"]
    /\ UNCHANGED <<clock, thr_lock, thr_wake, thr_calls, consumed>>
    /\ UNCHANGED notThrottler

\* Lines 72-75: fewer than one token: start time.sleep(wait_time), lock held.
SleepStart(t) ==
    /\ thr_pc[t] = "refilled"
    /\ tokens < OneToken
    /\ thr_wake' = [thr_wake EXCEPT ![t] = clock + WaitTime(tokens)]
    /\ thr_access' = (thr_access /\ thr_lock = t)
    /\ thr_pc' = [thr_pc EXCEPT ![t] = "sleeping"]
    /\ UNCHANGED <<clock, tokens, last_time, thr_lock, thr_calls, consumed>>
    /\ UNCHANGED notThrottler

\* Leaving `with self.lock`: the lock is released by the thread that holds it.
Released(t) == IF thr_lock = t THEN NoThread ELSE thr_lock

\* Lines 76-77 without the reset of last_time.
SleepEndKeepLastTime(t) ==
    /\ thr_pc[t] = "sleeping"
    /\ clock >= thr_wake[t]
    /\ tokens' = 0
    /\ thr_access' = (thr_access /\ thr_lock = t)
    /\ consumed' = Append(consumed, clock)
    /\ thr_lock' = Released(t)
    /\ thr_pc' = [thr_pc EXCEPT ![t] = "idle"]
    /\ UNCHANGED <<clock, last_time, thr_wake, thr_calls>>
    /\ UNCHANGED notThrottler

\* Lines 76-77: the sleep is over (time.sleep returns no earlier than asked):
\* tokens = 0, last_time = time.time(); the call returns and releases the lock.
SleepEnd(t) ==
    /\ thr_pc[t] = "sleeping"
    /\ clock >= thr_wake[t]
    /\ tokens' = 0
    /\ last_time' = clock
    /\ thr_access' = (thr_access /\ thr_lock = t)
    /\ consumed' = Append(consumed, clock)
    /\ thr_lock' = Released(t)
    /\ thr_pc' = [thr_pc EXCEPT ![t] = "idle"]
    /\ UNCHANGED <<clock, thr_wake, thr_calls>>
    /\ UNCHANGED notThrottler

\* Lines 78-80: at least one token: consume it; the call returns and releases
\* the lock.  The statements inside the lock other than time.sleep take no time
\* of their own: the consumption is dated by the clock value the call read at
\* line 65 (held in last_time).
Consume(t) ==
    /\ thr_pc[t] = "refilled"
    /\ tokens >= OneToken
    /\ tokens' = tokens - OneToken
    /\ thr_access' = (thr_access /\ thr_lock = t)
    /\ consumed' = Append(consumed, last_time)
    /\ thr_lock' = Released(t)
    /\ thr_pc' = [thr_pc EXCEPT ![t] = "idle"]
    /\ UNCHANGED <<clock, last_time, thr_wake, thr_calls>>
    /\ UNCHANGED notThrottler

C10_TokensBoundedUnderLock ==
    /\ tokens >= 0
    /\ tokens <= Capacity
    /\ thr_access
    /\ \A t \in Threads :
           thr_pc[t] \in {"locked", "refilled", "sleeping"} => thr_lock = t

\* One thread sleeps for a token inside the lock while another waits for the
\* lock.
C10_Witness ==
    \E t, u \in Threads :
        /\ thr_pc[t] = "sleeping"
        /\ thr_pc[u] = "acquire"
        /\ tokens < OneToken
        /\ thr_lock = t

\* The step in which thread t returns from wait_for_token.
Returns(t) == thr_pc[t] # "idle" /\ thr_pc'[t] = "idle"

\* C11: wait_for_token consumes exactly one token per call.  With at least one
\* token after the refill the call returns without sleeping (no time passes in
\* it) and tokens is one less.  With less than one token the call sleeps
\* (1 - tokens) / rate with the lock held, and returns no earlier than that
\* with tokens = 0 and last_time = the time after the sleep; so whenever the
\* lock is free last_time is the time of the last consumption, and the next
\* refill credits only the time since then.
C11_ExactlyOneTokenPerCall ==
    /\ [](thr_lock = NoThread /\ consumed # <<>>
             => last_time = consumed[Len(consumed)])
    /\ [][\A t \in Threads :
            /\ (thr_pc[t] = "refilled" /\ thr_pc'[t] # "refilled") =>
                  IF tokens >= OneToken
                  THEN /\ Returns(t)
                       /\ tokens' = tokens - OneToken
                       /\ Len(consumed') = Len(consumed) + 1
                       /\ UNCHANGED <<clock, last_time>>
                  ELSE /\ thr_pc'[t] = "sleeping"
                       /\ thr_wake'[t] * RequestsPerMinute
                              = clock * RequestsPerMinute + (OneToken - tokens)
                       /\ thr_lock' = t
                       /\ UNCHANGED <<tokens, consumed>>
            /\ (thr_pc[t] = "sleeping" /\ thr_pc'[t] # "sleeping") =>
                  /\ Returns(t)
                  /\ thr_lock = t
                  /\ clock >= thr_wake[t]
                  /\ tokens' = 0
                  /\ last_time' = clock
                  /\ Len(consumed') = Len(consumed) + 1
            /\ Returns(t) => thr_pc[t] \in {"refilled", "sleeping"}
       ]_vars

\* A call slept for its token and returned, time passed, and the next call has
\* refilled: the bucket holds the refill of the time since the sleep ended, and
\* nothing for the time slept.
C11_Witness ==
    \E t, u \in Threads :
        /\ thr_pc[t] = "refilled"
        /\ thr_wake[u] > 0
        /\ consumed # <<>>
        /\ consumed[Len(consumed)] >= thr_wake[u]
        /\ clock > consumed[Len(consumed)]
        /\ tokens = (clock - consumed[Len(consumed)]) * RequestsPerMinute
        /\ tokens < OneToken

ThrottlerNext ==
    \/ Tick
    \/ \E t \in Threads : CallWaitForToken(t)
    \/ \E t \in Threads : Acquire(t)
    \/ \E t \in Threads : RefillTokens(t)
    \/ \E t \in Threads : SleepStart(t)
    \/ \E t \in Threads : SleepEnd(t)
    \/ \E t \in Threads : Consume(t)


(***************************************************************************)
(* BrowserPool                                                             *)
(***************************************************************************)
\* Bounds of the pool model: the workers calling the pool, the pool's max_size,
\* the browser instances that may be created in a run, and the values of
\* worker_id (random.randint(1000, 9999)) that are drawn.
NumWorkers == 3
max_size == 2
MaxBrowsers == 3
NumDirs == 2

Workers == 1..NumWorkers
Browsers == 1..MaxBrowsers
Dirs == 1..NumDirs
NoLease == <<0, 0>>

PoolInit ==
    /\ available = <<>>
    /\ in_use = {}
    /\ pool_lock = NoThread
    /\ creation_lock = NoThread
    /\ pool_pc = [w \in Workers |-> "idle"]
    /\ lease = [w \in Workers |-> NoLease]
    /\ br_state = [b \in Browsers |-> "none"]
    /\ created = 0

\* Workers that are inside get_browser and may still create a browser.
Getting == {w \in Workers : pool_pc[w] \in
               {"g_lock1", "g_check1", "g_clock", "g_lock2", "g_check2", "g_create"}}

\* A worker calls get_browser() and reaches `with self.lock` (line 94).  Calls
\* are admitted while a browser instance is left for each caller to create.
GetBrowser(w) ==
    /\ pool_pc[w] = "idle"
    /\ created + Cardinality(Getting) < MaxBrowsers
    /\ pool_pc' = [pool_pc EXCEPT ![w] = "g_lock1"]
    /\ UNCHANGED <<available, in_use, pool_lock, creation_lock, lease, br_state, created>>
    /\ UNCHANGED notPool

\* `with self.lock:` at lines 94, 103, 117 and 124: block until the lock is
\* free, take it and go on to the body `to`.
PoolLockAt(w, from, to) ==
    /\ pool_pc[w] = from
    /\ pool_lock = NoThread
    /\ pool_lock' = w
    /\ pool_pc' = [pool_pc EXCEPT ![w] = to]
    /\ UNCHANGED <<available, in_use, creation_lock, lease, br_state, created>>
    /\ UNCHANGED notPool

AcquirePoolLock(w) ==
    \/ PoolLockAt(w, "g_lock1", "g_check1")
    \/ PoolLockAt(w, "g_lock2", "g_check2")
    \/ PoolLockAt(w, "g_lock3", "g_add")
    \/ PoolLockAt(w, "r_lock", "r_body")

\* Lines 95-98: an idle browser is handed out; the lock is released on return.
FirstCheckHit(w) ==
    /\ pool_pc[w] = "g_check1"
    /\ available # <<>>
    /\ available' = Tail(available)
    /\ in_use' = in_use \cup {Head(available)}
    /\ lease' = [lease EXCEPT ![w] = Head(available)]
    /\ pool_lock' = NoThread
    /\ pool_pc' = [pool_pc EXCEPT ![w] = "holding"]
    /\ UNCHANGED <<creation_lock, br_state, created>>
    /\ UNCHANGED notPool

\* The creation lock taken inside `with self.lock`: the pool lock is kept
\* while the worker goes for the creation lock.
FirstCheckMissKeepLock(w) ==
    /\ pool_pc[w] = "g_check1"
    /\ available = <<>>
    /\ pool_pc' = [pool_pc EXCEPT ![w] = "g_clock"]
    /\ UNCHANGED <<available, in_use, pool_lock, creation_lock, lease, br_state, created>>
    /\ UNCHANGED notPool

\* Line 95 false: leave the lock and go for the creation lock (line 101).
FirstCheckMiss(w) ==
    /\ pool_pc[w] = "g_check1"
    /\ available = <<>>
    /\ pool_lock' = NoThread
    /\ pool_pc' = [pool_pc EXCEPT ![w] = "g_clock"]
    /\ UNCHANGED <<available, in_use, creation_lock, lease, br_state, created>>
    /\ UNCHANGED notPool

\* Line 101: `with self.creation_lock:`.
AcquireCreationLock(w) ==
    /\ pool_pc[w] = "g_clock"
    /\ creation_lock = NoThread
    /\ creation_lock' = w
    /\ pool_pc' = [pool_pc EXCEPT ![w] = "g_lock2"]
    /\ UNCHANGED <<available, in_use, pool_lock, lease, br_state, created>>
    /\ UNCHANGED notPool

\* Lines 104-107: a browser became idle meanwhile; both locks are released.
SecondCheckHit(w) ==
    /\ pool_pc[w] = "g_check2"
    /\ available # <<>>
    /\ available' = Tail(available)
    /\ in_use' = in_use \cup {Head(available)}
    /\ lease' = [lease EXCEPT ![w] = Head(available)]
    /\ pool_lock' = NoThread
    /\ creation_lock' = NoThread
    /\ pool_pc' = [pool_pc EXCEPT ![w] = "holding"]
    /\ UNCHANGED <<br_state, created>>
    /\ UNCHANGED notPool

\* Line 104 false: the pool lock is left, the creation lock kept.
SecondCheckMiss(w) ==
    /\ pool_pc[w] = "g_check2"
    /\ available = <<>>
    /\ pool_lock' = NoThread
    /\ pool_pc' = [pool_pc EXCEPT ![w] = "g_create"]
    /\ UNCHANGED <<available, in_use, creation_lock, lease, br_state, created>>
    /\ UNCHANGED notPool

\* Lines 110-114: draw worker_id, make the directory, start _create_browser.
\* No count of the live browsers is consulted.
CreateStart(w) ==
    /\ pool_pc[w] = "g_create"
    /\ created < MaxBrowsers
    /\ \E d \in Dirs :
           lease' = [lease EXCEPT ![w] = <<created + 1, d>>]
    /\ created' = created + 1
    /\ br_state' = [br_state EXCEPT ![created + 1] = "creating"]
    /\ pool_pc' = [pool_pc EXCEPT ![w] = "g_creating"]
    /\ UNCHANGED <<available, in_use, pool_lock, creation_lock>>
    /\ UNCHANGED notPool

\* Line 114: _create_browser returns the driver.
CreateDone(w) ==
    /\ pool_pc[w] = "g_creating"
    /\ br_state' = [br_state EXCEPT ![lease[w][1]] = "live"]
    /\ pool_pc' = [pool_pc EXCEPT ![w] = "g_lock3"]
    /\ UNCHANGED <<available, in_use, pool_lock, creation_lock, lease, created>>
    /\ UNCHANGED notPool

\* Line 114: _create_browser raises (uc.Chrome fails to start): the exception
\* leaves get_browser, `with` releases the creation lock, no browser exists.
CreateFail(w) ==
    /\ pool_pc[w] = "g_creating"
    /\ br_state' = [br_state EXCEPT ![lease[w][1]] = "closed"]
    /\ lease' = [lease EXCEPT ![w] = NoLease]
    /\ creation_lock' = NoThread
    /\ pool_pc' = [pool_pc EXCEPT ![w] = "idle"]
    /\ UNCHANGED <<available, in_use, pool_lock, created>>
    /\ UNCHANGED notPool

\* Lines 117-120: the new lease joins in_use; both locks are released.
AddInUse(w) ==
    /\ pool_pc[w] = "g_add"
    /\ in_use' = in_use \cup {lease[w]}
    /\ pool_lock' = NoThread
    /\ creation_lock' = NoThread
    /\ pool_pc' = [pool_pc EXCEPT ![w] = "holding"]
    /\ UNCHANGED <<available, lease, br_state, created>>
    /\ UNCHANGED notPool

\* The holder of a lease calls return_browser(browser, dl_dir) (line 124).
ReturnBrowser(w) ==
    /\ pool_pc[w] = "holding"
    /\ pool_pc' = [pool_pc EXCEPT ![w] = "r_lock"]
    /\ UNCHANGED <<available, in_use, pool_lock, creation_lock, lease, br_state, created>>
    /\ UNCHANGED notPool

\* return_browser without lines 126-127: the lease stays in the in-use set.
ReturnKeepStillInUse(w) ==
    /\ pool_pc[w] = "r_body"
    /\ Len(available) < max_size
    /\ available' = Append(available, lease[w])
    /\ lease' = [lease EXCEPT ![w] = NoLease]
    /\ pool_lock' = NoThread
    /\ pool_pc' = [pool_pc EXCEPT ![w] = "idle"]
    /\ UNCHANGED <<in_use, creation_lock, br_state, created>>
    /\ UNCHANGED notPool

\* Lines 126-131: the lease leaves in_use and, with fewer than max_size idle
\* leases, joins the idle deque.
ReturnKeep(w) ==
    /\ pool_pc[w] = "r_body"
    /\ Len(available) < max_size
    /\ in_use' = in_use \ {lease[w]}
    /\ available' = Append(available, lease[w])
    /\ lease' = [lease EXCEPT ![w] = NoLease]
    /\ pool_lock' = NoThread
    /\ pool_pc' = [pool_pc EXCEPT ![w] = "idle"]
    /\ UNCHANGED <<creation_lock, br_state, created>>
    /\ UNCHANGED notPool

\* Lines 126-134: max_size leases are idle already: a thread is started that
\* closes the browser.
ReturnClose(w) ==
    /\ pool_pc[w] = "r_body"
    /\ Len(available) >= max_size
    /\ in_use' = in_use \ {lease[w]}
    /\ br_state' = [br_state EXCEPT ![lease[w][1]] = "closing"]
    /\ lease' = [lease EXCEPT ![w] = NoLease]
    /\ pool_lock' = NoThread
    /\ pool_pc' = [pool_pc EXCEPT ![w] = "idle"]
    /\ UNCHANGED <<available, creation_lock, created>>
    /\ UNCHANGED notPool

\* _close_browser in its own thread: browser.quit(), errors logged.
CloseBrowser(b) ==
    /\ br_state[b] = "closing"
    /\ br_state' = [br_state EXCEPT ![b] = "closed"]
    /\ UNCHANGED <<available, in_use, pool_lock, creation_lock, pool_pc, lease, created>>
    /\ UNCHANGED notPool

\* Browser instances created and not yet closed: idle, in use or being created.
LiveBrowsers == {b \in Browsers : br_state[b] \in {"creating", "live", "closing"}}

\* C1: the number of browser instances created and not yet closed never
\* exceeds max_size.
C1_AtMostMaxSize == Cardinality(LiveBrowsers) <= max_size

\* The workers that hold a lease: get_browser has returned it to them and their
\* return_browser has not yet taken it back.
Holders == {w \in Workers : pool_pc[w] \in {"holding", "r_lock", "r_body"}}

IdleLeases == {available[i] : i \in 1..Len(available)}

LeaseExclusive ==
    /\ \A w1, w2 \in Holders : w1 # w2 => lease[w1] # lease[w2]
    /\ \A w \in Holders : lease[w] \notin IdleLeases
    /\ \A i, j \in 1..Len(available) : available[i] = available[j] => i = j
    /\ IdleLeases \cap in_use = {}
    /\ Len(available) <= max_size

\* The step of worker w that ends return_browser.
Returns_browser(w) == pool_pc[w] = "r_body" /\ pool_pc'[w] = "idle"

\* C22: a lease is never held by two callers at once, never idle and in use at
\* once; return_browser appends it to the idle deque when that holds fewer than
\* max_size leases and otherwise has the browser closed by a thread of its own,
\* so the idle deque never holds more than max_size leases.
C22_LeaseExclusiveAndReleased ==
    /\ []LeaseExclusive
    /\ [][\A w \in Workers : Returns_browser(w) =>
              IF Len(available) < max_size
              THEN available' = Append(available, lease[w])
              ELSE /\ available' = available
                   /\ br_state'[lease[w][1]] = "closing"]_vars

\* Both outcomes of return_browser have happened: the idle deque is full and a
\* browser returned on top of it is being closed, while a worker holds a lease.
C22_Witness ==
    /\ Len(available) = max_size
    /\ \E b \in Browsers : br_state[b] = "closing"

\* The leases of the pool: idle, in use, or in the hands of a worker that is
\* creating, holding or returning one.
AllLeases == (IdleLeases \cup in_use \cup {lease[w] : w \in Workers}) \ {NoLease}

\* C23: no two browser instances of the pool that are running or being created
\* have the same download directory, and no two leases held at the same time
\* name the same directory.
C23_DirectoriesIsolated ==
    /\ \A l1, l2 \in AllLeases :
           /\ l1[1] # l2[1]
           /\ br_state[l1[1]] \in {"creating", "live"}
           /\ br_state[l2[1]] \in {"creating", "live"}
           => l1[2] # l2[2]
    /\ \A w1, w2 \in Holders : w1 # w2 => lease[w1][2] # lease[w2][2]

PoolNext ==
    \/ \E w \in Workers : GetBrowser(w)
    \/ \E w \in Workers : AcquirePoolLock(w)
    \/ \E w \in Workers : FirstCheckHit(w)
    \/ \E w \in Workers : FirstCheckMiss(w)
    \/ \E w \in Workers : AcquireCreationLock(w)
    \/ \E w \in Workers : SecondCheckHit(w)
    \/ \E w \in Workers : SecondCheckMiss(w)
    \/ \E w \in Workers : CreateStart(w)
    \/ \E w \in Workers : CreateDone(w)
    \/ \E w \in Workers : CreateFail(w)
    \/ \E w \in Workers : AddInUse(w)
    \/ \E w \in Workers : ReturnBrowser(w)
    \/ \E w \in Workers : ReturnKeep(w)
    \/ \E w \in Workers : ReturnClose(w)
    \/ \E b \in Browsers : CloseBrowser(b)


(***************************************************************************)
(* Quality selection of _extract_download_links                            *)
(***************************************************************************)
\* Bound of the page model: the number of a.dropdown-item anchors of the menu.
MaxMenu == 3

\* Resolutions the anchors' texts carry ("<resolution>p") and qualities asked.
MenuResolutions == {480, 720, 1080}
Qualities == {600, 720, 900, 1080}

\* An anchor: the resolution its text matches r'(\d+)p' with (NoMatch if it
\* matches nothing), the dub badge, and whether it has an href.  Its url is its
\* position in the menu.
NoMatch == 0
MenuItems ==
    [res : MenuResolutions, dub : BOOLEAN, href : {TRUE}]
        \cup {[res |-> NoMatch, dub |-> FALSE, href |-> TRUE],
              [res |-> 720, dub |-> FALSE, href |-> FALSE]}

RECURSIVE SeqsUpTo(_, _)
SeqsUpTo(S, n) ==
    IF n = 0 THEN {<<>>}
    ELSE LET shorter == SeqsUpTo(S, n - 1)
         IN  shorter \cup {Append(m, x) : m \in {y \in shorter : Len(y) = n - 1}, x \in S}

NoMenu == <<[res |-> NoMatch, dub |-> FALSE, href |-> FALSE, menu |-> FALSE]>>
Pages == SeqsUpTo(MenuItems, MaxMenu) \cup {NoMenu}

Pending == [status |-> "pending"]
NoneResult == [status |-> "none"]

QualityInit ==
    /\ q_page \in Pages
    /\ quality_pref \in Qualities
    /\ prefer_dub \in BOOLEAN
    /\ q_result = Pending
    /\ q_result_v2 = Pending

\* The state the selection rests in while another component runs.
QualityIdle ==
    /\ q_page = <<>>
    /\ quality_pref = 1080
    /\ prefer_dub = FALSE
    /\ q_result = Pending
    /\ q_result_v2 = Pending

Abs(x) == IF x < 0 THEN -x ELSE x
Range(f) == {f[i] : i \in DOMAIN f}

\* `if resolution_match and href:`
ValidItem(it) == it.res # NoMatch /\ it.href

\* src/pahe-dl.py:238-255: the keys (resolution, is_dub) of download_links in
\* the dict's order, the order of each key's first insertion.
DownloadLinkKeys(menu) ==
    LET F[i \in 0..Len(menu)] ==
            IF i = 0 THEN <<>>
            ELSE IF ValidItem(menu[i]) /\ <<menu[i].res, menu[i].dub>> \notin Range(F[i - 1])
                 THEN Append(F[i - 1], <<menu[i].res, menu[i].dub>>)
                 ELSE F[i - 1]
    IN  F[Len(menu)]

\* download_links[key]['url']: a later anchor with the same key overwrites.
DownloadLinkUrl(menu, key) ==
    LET hits == {i \in 1..Len(menu) :
                    ValidItem(menu[i]) /\ <<menu[i].res, menu[i].dub>> = key}
    IN  CHOOSE i \in hits : \A j \in hits : j <= i

\* src/pahe-dl.py:258-261 and 277: the resolutions of one audio type, in order.
ResolutionsOf(keys, dubbed) ==
    LET options == SelectSeq(keys, LAMBDA k : k[2] = dubbed)
    IN  [i \in 1..Len(options) |-> options[i][1]]

\* min(resolutions, key=...) taking the last of several closest resolutions.
ClosestLast(resolutions, q) ==
    LET F[i \in 1..Len(resolutions)] ==
            IF i = 1 THEN resolutions[1]
            ELSE IF Abs(resolutions[i] - q) <= Abs(F[i - 1] - q)
                 THEN resolutions[i]
                 ELSE F[i - 1]
    IN  F[Len(resolutions)]

\* min(resolutions, key=lambda x: abs(x - quality_pref)): Python's min returns
\* the first of several minimal elements.
Closest(resolutions, q) ==
    LET F[i \in 1..Len(resolutions)] ==
            IF i = 1 THEN resolutions[1]
            ELSE IF Abs(resolutions[i] - q) < Abs(F[i - 1] - q)
                 THEN resolutions[i]
                 ELSE F[i - 1]
    IN  F[Len(resolutions)]

\* Lines 279-284 (and 293-298): the exact resolution if listed, else the closest.
PickResolution(resolutions, q) ==
    IF q \in Range(resolutions) THEN q ELSE Closest(resolutions, q)

NoKey == <<0, FALSE>>

\* Selection that takes an exact match of the other audio type over a closest
\* match of the preferred one.
SelectKeyExactFirst(keys, q, dubbed) ==
    IF <<q, dubbed>> \in Range(keys) THEN <<q, dubbed>>
    ELSE IF <<q, ~dubbed>> \in Range(keys) THEN <<q, ~dubbed>>
    ELSE IF ResolutionsOf(keys, dubbed) # <<>>
         THEN <<PickResolution(ResolutionsOf(keys, dubbed), q), dubbed>>
    ELSE IF ResolutionsOf(keys, ~dubbed) # <<>>
         THEN <<PickResolution(ResolutionsOf(keys, ~dubbed), q), ~dubbed>>
    ELSE NoKey

\* Selection without the fall back to the other audio type.
SelectKeyNoFallback(keys, q, dubbed) ==
    IF ResolutionsOf(keys, dubbed) # <<>>
    THEN <<PickResolution(ResolutionsOf(keys, dubbed), q), dubbed>>
    ELSE NoKey

\* src/pahe-dl.py:267-302: the preferred audio type if it has an option, else
\* the other one, else nothing.
SelectKey(keys, q, dubbed) ==
    IF ResolutionsOf(keys, dubbed) # <<>>
    THEN <<PickResolution(ResolutionsOf(keys, dubbed), q), dubbed>>
    ELSE IF ResolutionsOf(keys, ~dubbed) # <<>>
         THEN <<PickResolution(ResolutionsOf(keys, ~dubbed), q), ~dubbed>>
         ELSE NoKey

\* src/pahe-dl.py:231-307, from the parsed page to the returned url (or None).
ExtractDownloadLinks(page, q, dubbed) ==
    IF page = NoMenu THEN NoneResult
    ELSE LET key == SelectKey(DownloadLinkKeys(page), q, dubbed)
         IN  IF key = NoKey THEN NoneResult
             ELSE [status |-> "link", res |-> key[1], dub |-> key[2],
                   url |-> DownloadLinkUrl(page, key)]

\* _extract_download_links of src/pahe-dl.py returns.
Extract ==
    /\ q_result = Pending
    /\ q_result' = ExtractDownloadLinks(q_page, quality_pref, prefer_dub)
    /\ UNCHANGED <<q_page, quality_pref, prefer_dub, q_result_v2>>
    /\ UNCHANGED notQuality

\* sorted(download_links.keys())
RECURSIVE SortedSeq(_)
SortedSeq(S) ==
    IF S = {} THEN <<>>
    ELSE LET m == CHOOSE x \in S : \A y \in S : x <= y
         IN  <<m>> \o SortedSeq(S \ {m})

\* src/v2/pahe-dl.py:495-521: download_links is keyed by the resolution alone
\* (a later anchor overwrites), and the closest is taken from the sorted keys.
ExtractDownloadLinksV2(page, q) ==
    IF page = NoMenu THEN NoneResult
    ELSE LET valid == {i \in 1..Len(page) : ValidItem(page[i])}
             resolutions == {page[i].res : i \in valid}
             selected == IF q \in resolutions THEN q
                         ELSE Closest(SortedSeq(resolutions), q)
         IN  IF valid = {} THEN NoneResult
             ELSE [status |-> "link", res |-> selected,
                   url |-> CHOOSE i \in valid :
                               /\ page[i].res = selected
                               /\ \A j \in valid : page[j].res = selected => j <= i]

\* _extract_download_links of src/v2/pahe-dl.py returns.
ExtractV2 ==
    /\ q_result_v2 = Pending
    /\ q_result_v2' = ExtractDownloadLinksV2(q_page, quality_pref)
    /\ UNCHANGED <<q_page, quality_pref, prefer_dub, q_result>>
    /\ UNCHANGED notQuality

\* The anchors of one audio type that carry a resolution and an href, by their
\* position in the menu, and the resolutions they offer.
AnchorsOf(dubbed) ==
    {i \in 1..Len(q_page) : ValidItem(q_page[i]) /\ q_page[i].dub = dubbed}
OfferedBy(dubbed) == {q_page[i].res : i \in AnchorsOf(dubbed)}
FirstAnchor(dubbed, r) ==
    CHOOSE i \in AnchorsOf(dubbed) :
        /\ q_page[i].res = r
        /\ \A j \in AnchorsOf(dubbed) : q_page[j].res = r => i <= j

\* r is offered by the audio type, no resolution of that type is closer to the
\* requested quality, and of the equally close ones r is listed first.
ClosestListedFirst(dubbed, r) ==
    /\ r \in OfferedBy(dubbed)
    /\ \A i \in AnchorsOf(dubbed) :
           /\ Abs(r - quality_pref) <= Abs(q_page[i].res - quality_pref)
           /\ Abs(r - quality_pref) = Abs(q_page[i].res - quality_pref)
                  => FirstAnchor(dubbed, r) <= i

\* C2: the selected resolution is one offered by the audio variant used, is
\* closest to the requested quality among them, and of several equally close
\* resolutions is the one listed first in the menu.
C2_ClosestFirstListed ==
    q_result.status = "link" => ClosestListedFirst(q_result.dub, q_result.res)

\* A selection made between two equally close resolutions of which the first
\* listed is the larger one.
C2_Witness ==
    /\ q_result.status = "link"
    /\ \E i, j \in AnchorsOf(q_result.dub) :
           /\ i < j
           /\ q_page[i].res > q_page[j].res
           /\ q_page[i].res = q_result.res
           /\ Abs(q_page[i].res - quality_pref) = Abs(q_page[j].res - quality_pref)

\* The page of C3: exactly two anchors, 720p then 1080p, of one audio type,
\* and quality 900 requested.
C3_Case ==
    /\ quality_pref = 900
    /\ Len(q_page) = 2
    /\ ValidItem(q_page[1]) /\ q_page[1].res = 720
    /\ ValidItem(q_page[2]) /\ q_page[2].res = 1080
    /\ q_page[1].dub = q_page[2].dub

\* C3 as stated: quality 900 against 720, 1080 (in that order) selects 1080.
C3_Selects1080 ==
    C3_Case /\ q_result # Pending => q_result.status = "link" /\ q_result.res = 1080

\* C3 as amended: quality 900 against 720, 1080 (in that order) selects 720, the
\* first listed of the two equally close resolutions, in src/pahe-dl.py and in
\* src/v2/pahe-dl.py.
C3_Selects720 ==
    /\ C3_Case /\ q_result # Pending
           => q_result.status = "link" /\ q_result.res = 720 /\ q_result.url = 1
    /\ C3_Case /\ q_result_v2 # Pending
           => q_result_v2.status = "link" /\ q_result_v2.res = 720 /\ q_result_v2.url = 1

\* Both versions have selected on the page of C3.
C3_Witness ==
    /\ C3_Case
    /\ q_result.status = "link"
    /\ q_result_v2.status = "link"

\* C4: if the page has an option of the preferred audio variant, the selected
\* option (key and returned link) is of that variant.
C4_PreferredVariantWins ==
    q_result # Pending /\ AnchorsOf(prefer_dub) # {}
        => /\ q_result.status = "link"
           /\ q_result.dub = prefer_dub
           /\ q_result.url \in AnchorsOf(prefer_dub)

\* The other variant offers the requested resolution exactly, the preferred one
\* only others, and the selection is made.
C4_Witness ==
    /\ q_result.status = "link"
    /\ quality_pref \in OfferedBy(~prefer_dub)
    /\ quality_pref \notin OfferedBy(prefer_dub)
    /\ AnchorsOf(prefer_dub) # {}

\* C5: with no option of the preferred variant and at least one of the other,
\* the selected option is of the other variant and closest to the requested
\* quality among that variant's; with no option at all the result is None.
C5_FallbackVariant ==
    q_result # Pending =>
        /\ AnchorsOf(prefer_dub) = {} /\ AnchorsOf(~prefer_dub) # {}
               => /\ q_result.status = "link"
                  /\ q_result.dub = ~prefer_dub
                  /\ q_result.url \in AnchorsOf(~prefer_dub)
                  /\ ClosestListedFirst(~prefer_dub, q_result.res)
        /\ AnchorsOf(prefer_dub) = {} /\ AnchorsOf(~prefer_dub) = {}
               => q_result = NoneResult

\* The fall back chose between two resolutions of the other variant, neither of
\* them the requested one.
C5_Witness ==
    /\ q_result.status = "link"
    /\ AnchorsOf(prefer_dub) = {}
    /\ Cardinality(OfferedBy(~prefer_dub)) >= 2
    /\ quality_pref \notin OfferedBy(~prefer_dub)

QualityNext ==
    \/ Extract
    \/ ExtractV2


(***************************************************************************)
(* Download completion detection: _wait_for_download_complete              *)
(***************************************************************************)
\* Bound of the directory model: the size a file grows to.
MaxFileSize == 2

\* timeout=120 as passed by _handle_kwik_download, and time.sleep(2).
Timeout == 120
PollSleep == 2

\* The directory of output_path: the target itself, another episode of the
\* series, the file the browser saves and its in-progress marker, and a file
\* that is no video.
TargetName == "Episode 2.mp4"
FileNames == {TargetName, "Episode 1.mp4", "video.mp4", "video.mp4.crdownload",
              "cover.jpg"}

\* f.endswith('.crdownload') and f.endswith(('.mp4', '.mkv'))
IsCrdownload(f) == f \in {"video.mp4.crdownload"}
IsVideo(f) == f \in {TargetName, "Episode 1.mp4", "video.mp4"}

\* A file: its size, its modification time, whether a writer still appends to
\* it, and whether the download that the detector waits for produced it.
NoFile == [exists |-> FALSE, size |-> 0, mtime |-> 0, growing |-> FALSE,
           current |-> FALSE]
OldFile == [exists |-> TRUE, size |-> MaxFileSize, mtime |-> 0, growing |-> FALSE,
            current |-> FALSE]
NoMove == [moved |-> FALSE]
NoVerdict == [wait |-> "none", success |-> FALSE]

\* os.listdir(download_dir)
ListDir == {f \in FileNames : d_files[f].exists}

\* The directory the detector is called on: files of earlier runs may be there
\* (complete, modified before the call), the download has left nothing yet.
DetectInit ==
    /\ d_files \in [FileNames -> {NoFile, OldFile}]
    /\ \A f \in FileNames : IsCrdownload(f) \/ f = "video.mp4" => d_files[f] = NoFile
    /\ d_dir0 = {f \in FileNames : d_files[f].exists}
    /\ d_now = 0
    /\ d_pc = "polling"
    /\ d_ret = FALSE
    /\ d_moved = NoMove
    /\ d_dl = "none"
    /\ d_report = NoVerdict

\* The state the detector rests in while another component runs.
DetectIdle ==
    /\ d_files = <<>>
    /\ d_dir0 = {}
    /\ d_now = 0
    /\ d_pc = "done"
    /\ d_ret = FALSE
    /\ d_moved = NoMove
    /\ d_dl = "none"
    /\ d_report = NoVerdict

\* The browser starts to save the download, under a .crdownload name.
DownloadStartMarked ==
    /\ d_pc = "polling"
    /\ d_dl = "none"
    /\ d_files' = [d_files EXCEPT !["video.mp4.crdownload"] =
                      [exists |-> TRUE, size |-> 1, mtime |-> d_now + 1,
                       growing |-> TRUE, current |-> TRUE]]
    /\ d_dl' = "marker"
    /\ UNCHANGED <<d_dir0, d_now, d_pc, d_ret, d_moved>>
    /\ UNCHANGED reportVars
    /\ UNCHANGED notDetect

\* The download is written under its final name from the start.
DownloadStartInPlace ==
    /\ d_pc = "polling"
    /\ d_dl = "none"
    /\ d_files' = [d_files EXCEPT !["video.mp4"] =
                      [exists |-> TRUE, size |-> 1, mtime |-> d_now + 1,
                       growing |-> TRUE, current |-> TRUE]]
    /\ d_dl' = "inplace"
    /\ UNCHANGED <<d_dir0, d_now, d_pc, d_ret, d_moved>>
    /\ UNCHANGED reportVars
    /\ UNCHANGED notDetect

\* The writer appends to the file it has open, whatever the file's name is now.
DownloadGrow ==
    /\ \E f \in FileNames :
           /\ d_files[f].exists /\ d_files[f].growing
           /\ d_files[f].size < MaxFileSize
           /\ d_files' = [d_files EXCEPT ![f].size = @ + 1, ![f].mtime = d_now + 1]
    /\ UNCHANGED <<d_dir0, d_now, d_pc, d_ret, d_moved, d_dl>>
    /\ UNCHANGED reportVars
    /\ UNCHANGED notDetect

\* The download is complete: the browser renames the .crdownload file to the
\* final name; a file written in place is closed.
DownloadFinish ==
    /\ \/ /\ d_dl = "marker"
          /\ d_files["video.mp4.crdownload"].exists
          /\ d_files' = [d_files EXCEPT
                 !["video.mp4"] = [d_files["video.mp4.crdownload"] EXCEPT
                                      !.growing = FALSE, !.mtime = d_now + 1],
                 !["video.mp4.crdownload"] = NoFile]
       \/ /\ d_dl = "inplace"
          /\ \E f \in FileNames :
                 /\ d_files[f].exists /\ d_files[f].growing
                 /\ d_files' = [d_files EXCEPT ![f].growing = FALSE]
    /\ d_dl' = "finished"
    /\ UNCHANGED <<d_dir0, d_now, d_pc, d_ret, d_moved>>
    /\ UNCHANGED reportVars
    /\ UNCHANGED notDetect

\* Lines 485-493: the video files other than the target, newest first; of
\* several files with the newest mtime any can come first.
Candidates == {f \in ListDir : IsVideo(f) /\ f # TargetName}
Newest == {f \in Candidates : \A g \in Candidates : d_files[g].mtime <= d_files[f].mtime}

\* Lines 474-482: a .crdownload file is listed: sleep and poll again.
PollInProgress ==
    /\ d_pc = "polling"
    /\ d_now < Timeout
    /\ \E f \in ListDir : IsCrdownload(f)
    /\ d_now' = d_now + PollSleep
    /\ UNCHANGED <<d_files, d_dir0, d_pc, d_ret, d_moved, d_dl>>
    /\ UNCHANGED reportVars
    /\ UNCHANGED notDetect

\* Lines 485-514: no .crdownload file, a video file other than the target: the
\* newest is renamed to the target (an existing target is removed first) and
\* the detector returns True.
PollAccept ==
    /\ d_pc = "polling"
    /\ d_now < Timeout
    /\ ~ \E f \in ListDir : IsCrdownload(f)
    /\ \E f \in Newest :
           /\ d_files' = [d_files EXCEPT ![TargetName] = d_files[f], ![f] = NoFile]
           /\ d_moved' = [moved |-> TRUE, name |-> f, current |-> d_files[f].current,
                          growing |-> d_files[f].growing, old |-> f \in d_dir0,
                          marker |-> \E g \in ListDir : IsCrdownload(g),
                          video |-> IsVideo(f)]
    /\ d_ret' = TRUE
    /\ d_pc' = "done"
    /\ UNCHANGED <<d_dir0, d_now, d_dl>>
    /\ UNCHANGED reportVars
    /\ UNCHANGED notDetect

\* Lines 501-511: os.remove raises, or os.rename raises after an existing
\* target was removed: the detector returns False.
PollMoveFails ==
    /\ d_pc = "polling"
    /\ d_now < Timeout
    /\ ~ \E f \in ListDir : IsCrdownload(f)
    /\ Candidates # {}
    /\ \/ d_files' = d_files
       \/ d_files' = [d_files EXCEPT ![TargetName] = NoFile]
    /\ d_ret' = FALSE
    /\ d_pc' = "done"
    /\ UNCHANGED <<d_dir0, d_now, d_moved, d_dl>>
    /\ UNCHANGED reportVars
    /\ UNCHANGED notDetect

\* Lines 485-517: no .crdownload file and no video file other than the target:
\* sleep and poll again.
PollNothing ==
    /\ d_pc = "polling"
    /\ d_now < Timeout
    /\ ~ \E f \in ListDir : IsCrdownload(f)
    /\ Candidates = {}
    /\ d_now' = d_now + PollSleep
    /\ UNCHANGED <<d_files, d_dir0, d_pc, d_ret, d_moved, d_dl>>
    /\ UNCHANGED reportVars
    /\ UNCHANGED notDetect

\* Lines 474 and 519-520: the timeout has passed: the detector returns False.
PollTimeout ==
    /\ d_pc = "polling"
    /\ d_now >= Timeout
    /\ d_ret' = FALSE
    /\ d_pc' = "done"
    /\ UNCHANGED <<d_files, d_dir0, d_now, d_moved, d_dl>>
    /\ UNCHANGED reportVars
    /\ UNCHANGED notDetect

\* Line 475: os.listdir(download_dir) raises (the directory is gone or cannot
\* be read).  Nothing in _wait_for_download_complete catches it.
PollRaises ==
    /\ d_pc = "polling"
    /\ d_now < Timeout
    /\ d_pc' = "raised"
    /\ UNCHANGED <<d_files, d_dir0, d_now, d_ret, d_moved, d_dl>>
    /\ UNCHANGED reportVars
    /\ UNCHANGED notDetect

\* _handle_kwik_download, lines 443-451: the value of the wait is dropped and
\* os.path.exists(output_path) is returned; an exception of the wait is caught
\* and False returned.
DetectReport ==
    /\ d_pc \in {"done", "raised"}
    /\ d_report' = IF d_pc = "raised"
                   THEN [wait |-> "raised", success |-> FALSE]
                   ELSE [wait |-> "returned", success |-> d_files[TargetName].exists]
    /\ d_pc' = "reported"
    /\ UNCHANGED <<d_files, d_dir0, d_now, d_ret, d_moved, d_dl>>
    /\ UNCHANGED notDetect

\* C6: the detector never renames to the target a video file that was in the
\* directory before the current download started: a renamed file is one the
\* current download produced.
C6_MovesOnlyCurrentDownload ==
    d_moved.moved => d_moved.current /\ ~d_moved.old

\* The target is complete in the directory the detector is called on: no
\* .crdownload file and no other video file.
AlreadyComplete(dir) ==
    /\ TargetName \in dir
    /\ \A f \in dir \ {TargetName} : ~IsCrdownload(f) /\ ~IsVideo(f)

\* Nothing was written to the directory since the detector was called.
Untouched == \A f \in FileNames : d_files[f] = IF f \in d_dir0 THEN OldFile ELSE NoFile

\* C7: called on a directory in which the target is already complete (and
\* that stays as it is), the detector returns True and leaves the file
\* unchanged.
C7_IdempotentOnCompleteTarget ==
    d_pc = "done" /\ AlreadyComplete(d_dir0) /\ Untouched => d_ret = TRUE

\* C8: a file is accepted and renamed only with no .crdownload file in the
\* directory, a video extension and a size that has stopped changing: a file
\* that still grows is never renamed into place.
C8_AcceptsOnlyStableFile ==
    d_moved.moved => ~d_moved.marker /\ d_moved.video /\ ~d_moved.growing

\* C26: when no acceptable file appears, _wait_for_download_complete returns
\* False at the first poll at or after `timeout` seconds (or its exception ends
\* the wait before), and the download stage then reports the episode as failed.
C26_TimeoutEndsInFailure ==
    /\ d_pc \in {"done", "raised", "reported"} => d_now <= Timeout + PollSleep
    /\ d_pc = "reported" /\ ~d_moved.moved /\ (d_now >= Timeout \/ d_report.wait = "raised") =>
           /\ d_report.wait = "returned" => d_ret = FALSE
           /\ ~d_report.success

DetectNext ==
    \/ DownloadStartMarked
    \/ DownloadStartInPlace
    \/ DownloadGrow
    \/ DownloadFinish
    \/ PollInProgress
    \/ PollAccept
    \/ PollMoveFails
    \/ PollNothing
    \/ PollTimeout
    \/ PollRaises
    \/ DetectReport

(***************************************************************************)
(* Episode listing: fetch_episodes                                         *)
(***************************************************************************)
\* Bound of the API model: the largest last_page a response reports.
MaxPages == 3

\* data.get('last_page') of a response that carries no JSON object.
NoLastPage == 0
\* An 'episode' value that is not a number: int() and float() raise ValueError.
NotANumber == 0

\* The entries of 'data'.  'episode' is held in halves (2 is episode 1, 3 is
\* episode 1.5, 4 is episode 2); every entry has its own 'session' token.
Entries ==
    { [episode |-> 2, session |-> "s1"],
      [episode |-> 3, session |-> "s1h"],
      [episode |-> 4, session |-> "s2"],
      [episode |-> NotANumber, session |-> "sx"] }

\* The 'data' lists a page may carry.
PageData ==
    {<<>>} \cup {<<x>> : x \in Entries}
           \cup {<<x, y>> : x, y \in {z \in Entries : z.episode \in {2, 3}}}

\* The outcomes of self._req(api_url) as fetch_episodes tells them apart: no
\* response, a status other than 200, a 200 whose body is not JSON, and a 200
\* with a JSON object.
Responses ==
    { [kind |-> k, last_page |-> NoLastPage, data |-> <<>>] :
          k \in {"none", "status", "notjson"} }
    \cup { [kind |-> "ok", last_page |-> l, data |-> d] :
               l \in 1..MaxPages, d \in PageData }

\* The (start, end) ranges fetch_episodes is called with.
FetchRanges == {<<1, 1>>, <<1, 2>>, <<2, 2>>}

\* The implementations of fetch_episodes.
FetchVersions == {"src/pahe-dl.py", "src/v2/pahe-dl.py"}

NoEpisodes == <<>>

FetchInit ==
    /\ f_ver \in FetchVersions
    /\ \E r \in FetchRanges : f_start = r[1] /\ f_end = r[2]
    /\ f_page = 1
    /\ f_last_page = NoLastPage
    /\ f_reqs = <<>>
    /\ f_resps = <<>>
    /\ f_listed = {}
    /\ f_eps = NoEpisodes
    /\ f_pc = "loop"

\* fetch_episodes is not running.
FetchIdle ==
    /\ f_ver = "src/pahe-dl.py"
    /\ f_start = 1
    /\ f_end = 1
    /\ f_page = 1
    /\ f_last_page = NoLastPage
    /\ f_reqs = <<>>
    /\ f_resps = <<>>
    /\ f_listed = {}
    /\ f_eps = NoEpisodes
    /\ f_pc = "idle"

\* int(ep['episode']) (src/pahe-dl.py) and int(float(ep['episode'])) (v2).
IntEpisode(raw) == raw \div 2

\* eps[num] = url: the play URL is determined by the entry's session token.
SetEpisode(eps, num, session) ==
    [n \in (DOMAIN eps) \cup {num} |-> IF n = num THEN session ELSE eps[n]]

\* The loop over data.get('data', []): entries whose 'episode' is not a number
\* are passed over, the others are stored when start <= num <= end.
RECURSIVE CollectEpisodes(_, _, _, _)
CollectEpisodes(eps, data, start, end) ==
    IF data = <<>> THEN eps
    ELSE LET ep == Head(data)
             num == IntEpisode(ep.episode)
             eps1 == IF ep.episode # NotANumber /\ start <= num /\ num <= end
                     THEN SetEpisode(eps, num, ep.session)
                     ELSE eps
         IN  CollectEpisodes(eps1, Tail(data), start, end)

\* src/pahe-dl.py:207 with the comparison off by one.
LastPageReachedLate(page, last_page) == page > last_page
\* src/pahe-dl.py:207: if page >= data.get('last_page', 1): break
LastPageReached(page, last_page) == page >= last_page

\* What fetch_episodes keeps of a response for the record of the run.
Seen(resp) == [kind |-> resp.kind, last_page |-> resp.last_page]

\* v2 lines 385-386: the last page is known and has been passed: leave the loop.
FetchLoopExit ==
    /\ f_pc = "loop"
    /\ f_ver = "src/v2/pahe-dl.py"
    /\ f_last_page # NoLastPage
    /\ f_page > f_last_page
    /\ f_pc' = "done"
    /\ UNCHANGED <<f_ver, f_start, f_end, f_page, f_last_page, f_reqs, f_resps,
                   f_listed, f_eps>>
    /\ UNCHANGED notFetch

\* resp = self._req(api_url) for the current page is issued.
FetchRequest ==
    /\ f_pc = "loop"
    /\ f_ver = "src/v2/pahe-dl.py" =>
           (f_last_page = NoLastPage \/ f_page <= f_last_page)
    /\ f_reqs' = Append(f_reqs, f_page)
    /\ f_pc' = "wait"
    /\ UNCHANGED <<f_ver, f_start, f_end, f_page, f_last_page, f_resps,
                   f_listed, f_eps>>
    /\ UNCHANGED notFetch

\* `if not resp or resp.status_code != 200: break`
FetchFailed(resp) ==
    /\ f_pc = "wait"
    /\ resp.kind \in {"none", "status"}
    /\ f_resps' = Append(f_resps, Seen(resp))
    /\ f_pc' = "done"
    /\ UNCHANGED <<f_ver, f_start, f_end, f_page, f_last_page, f_reqs,
                   f_listed, f_eps>>
    /\ UNCHANGED notFetch

\* resp.json() raises ValueError: caught by v2 (lines 414-416, break), not
\* caught by src/pahe-dl.py (line 198).
FetchNotJson(resp) ==
    /\ f_pc = "wait"
    /\ resp.kind = "notjson"
    /\ f_resps' = Append(f_resps, Seen(resp))
    /\ f_pc' = IF f_ver = "src/v2/pahe-dl.py" THEN "done" ELSE "raised"
    /\ UNCHANGED <<f_ver, f_start, f_end, f_page, f_last_page, f_reqs,
                   f_listed, f_eps>>
    /\ UNCHANGED notFetch

\* src/pahe-dl.py:198-209: collect the page's episodes, stop on the last page,
\* otherwise page += 1 and self._random_delay().
FetchPage(resp) ==
    /\ f_pc = "wait"
    /\ f_ver = "src/pahe-dl.py"
    /\ resp.kind = "ok"
    /\ f_resps' = Append(f_resps, Seen(resp))
    /\ f_listed' = f_listed \cup {resp.data[i] : i \in 1..Len(resp.data)}
    /\ f_eps' = CollectEpisodes(f_eps, resp.data, f_start, f_end)
    /\ IF LastPageReached(f_page, resp.last_page)
       THEN f_pc' = "done" /\ f_page' = f_page
       ELSE f_pc' = "loop" /\ f_page' = f_page + 1
    /\ UNCHANGED <<f_ver, f_start, f_end, f_last_page, f_reqs>>
    /\ UNCHANGED notFetch

\* v2 lines 395-412: remember last_page, collect the page's episodes,
\* page += 1 and self._random_delay(1.5, 3.0).
FetchPageV2(resp) ==
    /\ f_pc = "wait"
    /\ f_ver = "src/v2/pahe-dl.py"
    /\ resp.kind = "ok"
    /\ f_resps' = Append(f_resps, Seen(resp))
    /\ f_listed' = f_listed \cup {resp.data[i] : i \in 1..Len(resp.data)}
    /\ f_eps' = CollectEpisodes(f_eps, resp.data, f_start, f_end)
    /\ f_last_page' = resp.last_page
    /\ f_page' = f_page + 1
    /\ f_pc' = "loop"
    /\ UNCHANGED <<f_ver, f_start, f_end, f_reqs>>
    /\ UNCHANGED notFetch

FetchNext ==
    \/ FetchLoopExit
    \/ FetchRequest
    \/ \E resp \in Responses : FetchFailed(resp)
    \/ \E resp \in Responses : FetchNotJson(resp)
    \/ \E resp \in Responses : FetchPage(resp)
    \/ \E resp \in Responses : FetchPageV2(resp)

\* Every page request so far succeeded with status 200 and reported last_page = l.
AllPagesOk(l) ==
    \A i \in 1..Len(f_resps) :
        f_resps[i].kind = "ok" /\ f_resps[i].last_page = l

\* C12 (pages requested): when every page request succeeds with status 200 and
\* each page reports the same last_page = L, the requests made are for pages
\* 1, 2, ... in that order and never for a page after L, a page is requested
\* only when the responses to all earlier requests have been processed, and
\* when the loop has ended exactly the L pages 1..L have been requested.
C12_PagesRequested ==
    /\ Len(f_reqs) - Len(f_resps) = (IF f_pc = "wait" THEN 1 ELSE 0)
    /\ \A l \in 1..MaxPages :
           AllPagesOk(l) =>
               /\ Len(f_reqs) <= l
               /\ \A i \in 1..Len(f_reqs) : f_reqs[i] = i
               /\ f_pc # "raised"
               /\ f_pc = "done" => Len(f_reqs) = l

\* C12 (termination): the loop of fetch_episodes ends.
C12_Terminates == <>(f_pc \in {"done", "raised"})

\* C12: the pages requested are exactly 1..L, one after the other, and the loop
\* terminates.
C12_Pagination == []C12_PagesRequested /\ C12_Terminates

\* A listing of more than one page fetched to its end.
C12_Witness ==
    \E l \in 2..MaxPages :
        /\ f_pc = "done"
        /\ AllPagesOk(l)
        /\ Len(f_resps) = l
        /\ f_reqs = [i \in 1..l |-> i]

\* The listed entries whose 'episode' is a number that falls, as an integer,
\* between start and end.
ListedInRange ==
    {e \in f_listed : /\ e.episode # NotANumber
                      /\ f_start <= IntEpisode(e.episode)
                      /\ IntEpisode(e.episode) <= f_end}

\* C27: the result of fetch_episodes holds the listed episodes of the range,
\* none missing and none from outside, each with the play URL of its own
\* session token; a page request that fails (no response, or a status other
\* than 200) ends the pagination without an exception, with the episodes
\* collected so far.
C27_ExactlyListedInRange ==
    /\ f_pc \in {"loop", "wait", "done"} =>
           /\ \A e \in ListedInRange :
                  \E n \in DOMAIN f_eps : n = IntEpisode(e.episode) /\ f_eps[n] = e.session
           /\ \A n \in DOMAIN f_eps :
                  \E e \in ListedInRange : n = IntEpisode(e.episode) /\ f_eps[n] = e.session
    /\ f_resps # <<>> /\ f_resps[Len(f_resps)].kind \in {"none", "status"} => f_pc = "done"

\* C33: in the v2 fetch_episodes distinct episodes listed in the range have
\* distinct entries in the result, a fractional episode (13.5 beside 13)
\* included: each listed in-range episode's play URL is in the result and no
\* two of them share a key.
C33_DistinctEpisodesDistinctEntries ==
    (f_ver = "src/v2/pahe-dl.py" /\ f_pc \in {"loop", "wait", "done"}) =>
        \A e1, e2 \in ListedInRange :
            \E n1, n2 \in DOMAIN f_eps :
                /\ f_eps[n1] = e1.session
                /\ f_eps[n2] = e2.session
                /\ e1 # e2 => n1 # n2

(***************************************************************************)
(* Orchestrators: download (src/pahe-dl.py), download_episodes (v2)        *)
(***************************************************************************)
\* Bounds of the batch model: the episodes of the batch and the `workers`
\* argument of download_episodes.
NumEpisodes == 3
BatchWorkers == 2

Episodes == 1..NumEpisodes

\* What os.path.exists / os.path.getsize tell of an output file.
FileStates == {"absent", "empty", "nonempty"}

\* The outcomes of one pipeline run: download_episode (src/pahe-dl.py) returns
\* True or False, its stages catching every Exception themselves;
\* _download_episode (v2) returns True or False or raises, get_browser() being
\* called outside its try block.
RunOutcomes(ver) ==
    IF ver = "src/pahe-dl.py" THEN {"ok", "failed"} ELSE {"ok", "failed", "raised"}

\* The output file after a pipeline run: a successful run leaves the episode
\* file; a failed one leaves the path as it was or leaves a file it opened and
\* wrote nothing to.
FileAfter(before, outcome) ==
    IF outcome = "ok" THEN {"nonempty"} ELSE {before, "empty"}

NoReport == [kind |-> "none", success |-> 0, total |-> 0]

\* No browser: _download_episode has not (yet) got one from the pool.
NoBrowser == 0

OrchInit ==
    /\ o_ver \in FetchVersions
    /\ o_files \in [Episodes -> FileStates]
    /\ o_seen = [n \in Episodes |-> "unseen"]
    /\ o_outcome = [n \in Episodes |-> "pending"]
    /\ o_idx = 1
    /\ o_success = 0
    /\ o_report = NoReport
    /\ o_trace = <<>>
    /\ o_pc = "start"
    /\ o_lease = [n \in Episodes |-> NoBrowser]
    /\ o_idle = {}
    /\ o_made = 0

\* No batch is running.
OrchIdle ==
    /\ o_ver = "src/pahe-dl.py"
    /\ o_files = [n \in Episodes |-> "absent"]
    /\ o_seen = [n \in Episodes |-> "unseen"]
    /\ o_outcome = [n \in Episodes |-> "pending"]
    /\ o_idx = 1
    /\ o_success = 0
    /\ o_report = NoReport
    /\ o_trace = <<>>
    /\ o_pc = "idle"
    /\ o_lease = [n \in Episodes |-> NoBrowser]
    /\ o_idle = {}
    /\ o_made = 0

\* src/pahe-dl.py:685: if os.path.exists(path)
Exists(file) == file # "absent"

\* v2 line 920: os.path.exists(output_path) and os.path.getsize(output_path) > 0
ExistsAndNotEmpty(file) == file # "absent" /\ file = "nonempty"

\* ---- download (src/pahe-dl.py:660-698): for num, url in sorted(eps.items())
\* Lines 677-679: success = 0, total_eps = len(eps); the loop is entered.
SerialStart ==
    /\ o_pc = "start"
    /\ o_ver = "src/pahe-dl.py"
    /\ o_pc' = "loop"
    /\ UNCHANGED <<o_ver, o_files, o_seen, o_outcome, o_idx, o_success,
                   o_report, o_trace>>
    /\ UNCHANGED leaseVars
    /\ UNCHANGED notOrch

\* Lines 685-688: the output path exists: success += 1; continue.
SerialSkip ==
    /\ o_pc = "loop"
    /\ o_idx <= NumEpisodes
    /\ Exists(o_files[o_idx])
    /\ o_seen' = [o_seen EXCEPT ![o_idx] = o_files[o_idx]]
    /\ o_outcome' = [o_outcome EXCEPT ![o_idx] = "skipped"]
    /\ o_success' = o_success + 1
    /\ o_trace' = Append(o_trace, <<"skip", o_idx>>)
    /\ o_idx' = o_idx + 1
    /\ UNCHANGED <<o_ver, o_files, o_report, o_pc>>
    /\ UNCHANGED leaseVars
    /\ UNCHANGED notOrch

\* Lines 690-693: download_episode(url, path, ...) runs; on True success += 1
\* and self._random_delay().
SerialRun(outcome, file) ==
    /\ o_pc = "loop"
    /\ o_idx <= NumEpisodes
    /\ ~Exists(o_files[o_idx])
    /\ outcome \in RunOutcomes(o_ver)
    /\ file \in FileAfter(o_files[o_idx], outcome)
    /\ o_seen' = [o_seen EXCEPT ![o_idx] = o_files[o_idx]]
    /\ o_files' = [o_files EXCEPT ![o_idx] = file]
    /\ o_outcome' = [o_outcome EXCEPT ![o_idx] = outcome]
    /\ o_success' = IF outcome = "ok" THEN o_success + 1 ELSE o_success
    /\ o_trace' = IF outcome = "ok"
                  THEN o_trace \o << <<"run", o_idx>>, <<"delay", o_idx>> >>
                  ELSE Append(o_trace, <<"run", o_idx>>)
    /\ o_idx' = o_idx + 1
    /\ UNCHANGED <<o_ver, o_report, o_pc>>
    /\ UNCHANGED leaseVars
    /\ UNCHANGED notOrch

\* Lines 695-698: the loop is over: "Completed: success/total_eps", _cleanup.
SerialReport ==
    /\ o_pc = "loop"
    /\ o_idx > NumEpisodes
    /\ o_report' = [kind |-> "counts", success |-> o_success, total |-> NumEpisodes]
    /\ o_pc' = "done"
    /\ UNCHANGED <<o_ver, o_files, o_seen, o_outcome, o_idx, o_success, o_trace>>
    /\ UNCHANGED leaseVars
    /\ UNCHANGED notOrch

\* ---- download_episodes (src/v2/pahe-dl.py:896-964)
\* The episodes that become tasks (lines 914-924).
Tasks == {n \in Episodes : o_seen[n] # "unseen" /\ ~ExistsAndNotEmpty(o_seen[n])}

\* Lines 914-931: the task list is built; episodes whose file exists and is not
\* empty are left out; with no task left: "All episodes already downloaded",
\* return True.
ParallelStart ==
    /\ o_pc = "start"
    /\ o_ver = "src/v2/pahe-dl.py"
    /\ o_seen' = o_files
    /\ o_outcome' = [n \in Episodes |->
                        IF ExistsAndNotEmpty(o_files[n]) THEN "skipped" ELSE "pending"]
    /\ IF \A n \in Episodes : ExistsAndNotEmpty(o_files[n])
       THEN /\ o_report' = [kind |-> "all downloaded", success |-> 0, total |-> 0]
            /\ o_pc' = "done"
       ELSE /\ o_report' = o_report
            /\ o_pc' = "pool"
    /\ UNCHANGED <<o_ver, o_files, o_idx, o_success, o_trace>>
    /\ UNCHANGED leaseVars
    /\ UNCHANGED notOrch

\* workers = min(workers or self.max_workers, len(filtered_episodes)) (909-910)
PoolWorkers == Min(BatchWorkers, NumEpisodes)

\* A thread of the ThreadPoolExecutor(max_workers=workers) takes a submitted
\* task and calls _download_episode (lines 941-947).
ParallelRun(n) ==
    /\ o_pc = "pool"
    /\ n \in Tasks
    /\ o_outcome[n] = "pending"
    /\ Cardinality({m \in Episodes : o_outcome[m] = "running"}) < PoolWorkers
    /\ o_outcome' = [o_outcome EXCEPT ![n] = "running"]
    /\ UNCHANGED <<o_ver, o_files, o_seen, o_idx, o_success, o_report, o_trace, o_pc>>
    /\ UNCHANGED leaseVars
    /\ UNCHANGED notOrch

\* self.available.popleft() without the pop: the browser handed out stays idle.
TakeIdleKeep(idle, b) == idle

\* get_browser, lines 95-96 and 104-105: the browser handed out leaves the idle
\* deque.
TakeIdle(idle, b) == idle \ {b}

\* return_browser, lines 130-134: the browser becomes idle again while fewer
\* than max_size are idle, and is closed otherwise.
GiveBack(idle, b) == IF Cardinality(idle) < max_size THEN idle \cup {b} ELSE idle

\* _download_episode, line 863: get_browser() hands the task an idle browser if
\* there is one and a newly created one otherwise.
ParallelGetBrowser(n) ==
    /\ o_pc = "pool"
    /\ o_outcome[n] = "running"
    /\ o_lease[n] = NoBrowser
    /\ IF o_idle # {}
       THEN /\ \E b \in o_idle :
                  /\ o_lease' = [o_lease EXCEPT ![n] = b]
                  /\ o_idle' = TakeIdle(o_idle, b)
            /\ UNCHANGED o_made
       ELSE /\ o_lease' = [o_lease EXCEPT ![n] = o_made + 1]
            /\ o_made' = o_made + 1
            /\ UNCHANGED o_idle
    /\ UNCHANGED <<o_ver, o_files, o_seen, o_outcome, o_idx, o_success, o_report,
                   o_trace, o_pc>>
    /\ UNCHANGED notOrch

\* The task's future completes and the as_completed loop takes its result
\* (lines 950-961): a result or an exception, each logged.  _download_episode
\* raises when get_browser() does (line 863); on every other path it has
\* called return_browser before it returns (lines 871, 879, 886, 893).
ParallelDone(n, outcome, file) ==
    /\ o_pc = "pool"
    /\ o_outcome[n] = "running"
    /\ outcome \in RunOutcomes(o_ver)
    /\ outcome = "raised" <=> o_lease[n] = NoBrowser
    /\ file \in FileAfter(o_files[n], outcome)
    /\ o_files' = [o_files EXCEPT ![n] = file]
    /\ o_outcome' = [o_outcome EXCEPT ![n] = outcome]
    /\ o_lease' = [o_lease EXCEPT ![n] = NoBrowser]
    /\ o_idle' = IF o_lease[n] = NoBrowser THEN o_idle ELSE GiveBack(o_idle, o_lease[n])
    /\ UNCHANGED <<o_ver, o_seen, o_idx, o_success, o_report, o_trace, o_pc, o_made>>
    /\ UNCHANGED notOrch

\* Lines 963-964: every future has been taken: "Download process completed",
\* return True.  No count of successes is kept or reported.
ParallelReport ==
    /\ o_pc = "pool"
    /\ \A n \in Tasks : o_outcome[n] \in {"ok", "failed", "raised"}
    /\ o_report' = [kind |-> "completed", success |-> 0, total |-> 0]
    /\ o_pc' = "done"
    /\ UNCHANGED <<o_ver, o_files, o_seen, o_outcome, o_idx, o_success, o_trace>>
    /\ UNCHANGED leaseVars
    /\ UNCHANGED notOrch

OrchNext ==
    \/ SerialStart
    \/ SerialSkip
    \/ \E outcome \in {"ok", "failed"}, file \in FileStates : SerialRun(outcome, file)
    \/ SerialReport
    \/ ParallelStart
    \/ \E n \in Episodes : ParallelRun(n)
    \/ \E n \in Episodes : ParallelGetBrowser(n)
    \/ \E n \in Episodes, outcome \in {"ok", "failed", "raised"}, file \in FileStates :
           ParallelDone(n, outcome, file)
    \/ ParallelReport

\* The episodes the orchestrator has dealt with: skipped as existing, or driven
\* through the pipeline to an outcome.
Handled == {n \in Episodes : o_outcome[n] \in {"skipped", "ok", "failed", "raised"}}

\* The successes of the batch as the spec counts them.
Successes == {n \in Episodes : o_outcome[n] \in {"skipped", "ok"}}

\* C13: the orchestrator never aborts a batch because of one episode: when a
\* batch in which the pipeline run of some episode returned failure or raised
\* has finished, every episode of the batch has been skipped as existing or
\* driven through the pipeline, and the final success/total report has been
\* produced.
C13_NeverAbortsAndReports ==
    (o_pc = "done" /\ \E n \in Episodes : o_outcome[n] \in {"failed", "raised"}) =>
        /\ Handled = Episodes
        /\ o_report.kind = "counts"
        /\ o_report.success = Cardinality(Successes)
        /\ o_report.total = NumEpisodes

\* C14: the serial orchestrator skips a target and counts it as a success if
\* and only if its output file exists and is not empty; a target whose file
\* exists with size 0 is driven through the pipeline again.
C14_SkipsIffNonEmpty ==
    o_ver = "src/pahe-dl.py" =>
        \A n \in Episodes :
            o_seen[n] # "unseen" =>
                (o_outcome[n] = "skipped" <=> o_seen[n] = "nonempty")

\* The episodes a thread of the executor is processing.
Running == {n \in Episodes : o_outcome[n] = "running"}

\* C24: at most `workers` episodes are being processed at any time; no two of
\* them hold the same browser; an episode is taken up only while it is pending,
\* and when download_episodes returns every task has been processed.
C24_BoundedParallel ==
    /\ [](o_ver = "src/v2/pahe-dl.py" =>
            /\ Cardinality(Running) <= BatchWorkers
            /\ \A n, m \in Running :
                   n # m /\ o_lease[n] # NoBrowser => o_lease[n] # o_lease[m]
            /\ \A n \in Episodes : o_lease[n] # NoBrowser => n \in Running /\ o_lease[n] \notin o_idle
            /\ o_pc = "done" =>
                   \A n \in Tasks : o_outcome[n] \in {"ok", "failed", "raised"})
    /\ [][\A n \in Episodes :
              o_outcome[n] # "running" /\ o_outcome'[n] = "running" =>
                  n \in Tasks /\ o_outcome[n] = "pending"]_vars

\* As many episodes as there are workers are being processed, each with a
\* browser, one of them with a browser an earlier episode gave back.
C24_Witness ==
    /\ o_ver = "src/v2/pahe-dl.py"
    /\ Cardinality({n \in Running : o_lease[n] # NoBrowser}) = BatchWorkers
    /\ \E n \in Episodes : o_outcome[n] \in {"ok", "failed"}
    /\ o_made = BatchWorkers

\* C32: in the serial loop a randomized delay lies between the end of one
\* episode's pipeline run and the next episode's pipeline run, whether the
\* first run succeeded or failed.
C32_DelayBetweenRuns ==
    o_ver = "src/pahe-dl.py" =>
        \A i, j \in 1..Len(o_trace) :
            (i < j /\ o_trace[i][1] = "run" /\ o_trace[j][1] = "run") =>
                \E k \in (i + 1)..(j - 1) : o_trace[k][1] = "delay"

(***************************************************************************)
(* Direct-stream download: _download_file (src/v2/pahe-dl.py:796-856)      *)
(***************************************************************************)
\* Bound of the stream model: the chunks response.iter_content yields.
MaxChunks == 2

\* output_path before the call: absent, or a file of an earlier run.
OutputStates == {"absent", "old"}
\* output_path + '.part' before the call: absent, or left behind by an earlier
\* run that was killed while writing (the handler catches Exception only).
PartStates == {"absent", "stale"}
\* The status of the response to the streaming GET: a success (200, 206) or an
\* error (403, 404, 5xx).  The code never looks at it.
StreamStatuses == {"success", "error"}

DownloadFileInit ==
    /\ df_out \in OutputStates
    /\ df_part \in PartStates
    /\ df_out0 = df_out
    /\ df_part0 = df_part
    /\ df_bound = FALSE
    /\ df_status = "none"
    /\ df_chunks = 0
    /\ df_wrote = {}
    /\ df_raised = FALSE
    /\ df_ret = "none"
    /\ df_pc = "start"

\* _download_file is not running.
DownloadFileIdle ==
    /\ df_out = "absent"
    /\ df_part = "absent"
    /\ df_out0 = "absent"
    /\ df_part0 = "absent"
    /\ df_bound = FALSE
    /\ df_status = "none"
    /\ df_chunks = 0
    /\ df_wrote = {}
    /\ df_raised = FALSE
    /\ df_ret = "none"
    /\ df_pc = "idle"

\* Lines 802-821: wait_for_token, the streaming GET returns a response, the
\* content length is read and the directory made.
StreamRequest(status) ==
    /\ df_pc = "start"
    /\ df_status' = status
    /\ df_pc' = "open"
    /\ UNCHANGED <<df_out, df_part, df_out0, df_part0, df_bound, df_chunks,
                   df_wrote, df_raised, df_ret>>
    /\ UNCHANGED notDownloadFile

\* Lines 824-833: temp_path = output_path + '.part'; open(temp_path, 'wb')
\* creates the file or truncates the one that is there.
OpenTemp ==
    /\ df_pc = "open"
    /\ df_bound' = TRUE
    /\ df_part' = "partial"
    /\ df_pc' = "writing"
    /\ UNCHANGED <<df_out, df_out0, df_part0, df_status, df_chunks, df_wrote,
                   df_raised, df_ret>>
    /\ UNCHANGED notDownloadFile

\* Lines 835-838: a chunk of the stream is written to f, the temporary file.
WriteChunk ==
    /\ df_pc = "writing"
    /\ df_chunks < MaxChunks
    /\ df_chunks' = df_chunks + 1
    /\ df_wrote' = df_wrote \cup {"temp_path"}
    /\ UNCHANGED <<df_out, df_part, df_out0, df_part0, df_bound, df_status,
                   df_raised, df_ret, df_pc>>
    /\ UNCHANGED notDownloadFile

\* The stream is exhausted and the `with` block closes the temporary file.
StreamEnd ==
    /\ df_pc = "writing"
    /\ df_part' = "complete"
    /\ df_pc' = "rename"
    /\ UNCHANGED <<df_out, df_out0, df_part0, df_bound, df_status, df_chunks,
                   df_wrote, df_raised, df_ret>>
    /\ UNCHANGED notDownloadFile

\* Lines 841-844: os.rename(temp_path, output_path); return True.
RenameTemp ==
    /\ df_pc = "rename"
    /\ df_out' = "new"
    /\ df_part' = "absent"
    /\ df_ret' = "True"
    /\ df_pc' = "done"
    /\ UNCHANGED <<df_out0, df_part0, df_bound, df_status, df_chunks, df_wrote,
                   df_raised>>
    /\ UNCHANGED notDownloadFile

\* Lines 850-854: `if os.path.exists(temp_path): os.remove(temp_path)` inside
\* try / bare except.  With temp_path not assigned yet the test raises
\* UnboundLocalError, which the bare except swallows: nothing is removed.
\* os.remove itself is taken to succeed.
RemovePartial(part, bound) == IF bound THEN "absent" ELSE part

\* An exception is raised at some point of the try block (the request, the
\* headers, makedirs, open, a read or write of a chunk, the rename) and the
\* handler of lines 846-856 runs: remove the partial file, return False.
Raise ==
    /\ df_pc \in {"start", "open", "writing", "rename"}
    /\ df_raised' = TRUE
    /\ df_part' = RemovePartial(df_part, df_bound)
    /\ df_ret' = "False"
    /\ df_pc' = "done"
    /\ UNCHANGED <<df_out, df_out0, df_part0, df_bound, df_status, df_chunks,
                   df_wrote>>
    /\ UNCHANGED notDownloadFile

DownloadFileNext ==
    \/ \E status \in StreamStatuses : StreamRequest(status)
    \/ OpenTemp
    \/ WriteChunk
    \/ StreamEnd
    \/ RenameTemp
    \/ Raise

\* C15: stream data is written only to output_path + '.part'; output_path
\* changes only by the final rename, after the whole stream was written; and
\* after an exception at any point the temporary file does not exist,
\* output_path is as it was before the call, and the function has returned
\* False.
C15_TempThenRename ==
    /\ df_wrote \subseteq {"temp_path"}
    /\ df_out # df_out0 => (df_pc = "done" /\ df_ret = "True" /\ ~df_raised)
    /\ (df_pc = "done" /\ df_raised) =>
           /\ df_part = "absent"
           /\ df_out = df_out0
           /\ df_ret = "False"

\* C38: the v2 _download_file returns True, and puts a new file at
\* output_path, only when the response to the streaming GET has a success
\* status; the body of an error response is never saved as the episode file.
C38_TrueOnlyOnSuccessStatus ==
    (df_ret = "True" \/ df_out = "new") => df_status = "success"

(***************************************************************************)
(* HTTP request with challenge escalation and retries: _req                *)
(***************************************************************************)
\* What _req tells apart in a response: the class of its status (200; one of
\* 429, 500, 502, 503, 504; any other) and the marker its body carries.
Statuses == {"200", "429/5xx", "other"}
Bodies == {"clean", "DDoS-Guard", "Are you a human"}

NoResponse == [status |-> "none", body |-> "none"]

\* The responses self.sess.get(url) can return.  In v2 the adapter's
\* Retry(total=3, status_forcelist=[429, 500, 502, 503, 504]) (lines 273-278)
\* retries such a status inside sess.get and raises when it persists, so no
\* response carries one; src/pahe-dl.py mounts TLSAdapter() without a retry
\* strategy (lines 90-92) and returns whatever status comes.
GetResponses(ver) ==
    { [status |-> s, body |-> b] :
          s \in (IF ver = "src/v2/pahe-dl.py" THEN {"200", "other"} ELSE Statuses),
          b \in Bodies }

\* retry=2 (src/pahe-dl.py:140), retry=3 (src/v2/pahe-dl.py:316)
RetryOneMore(ver) == IF ver = "src/v2/pahe-dl.py" THEN 4 ELSE 3
Retry(ver) == IF ver = "src/v2/pahe-dl.py" THEN 3 ELSE 2

\* The test for an anti-bot challenge: src/pahe-dl.py:146 knows "DDoS-Guard";
\* v2 line 327 also "Are you a human" and "captcha".
IsChallenge(ver, body) ==
    IF ver = "src/v2/pahe-dl.py" THEN body # "clean" ELSE body = "DDoS-Guard"

\* time.sleep(2) (src/pahe-dl.py:161); 2 ** (attempt + 1) (v2 line 350), for
\* attempt = 1, 2, 3 counted from one.
Backoff(ver, attempt) == IF ver = "src/v2/pahe-dl.py" THEN 2 ^ attempt ELSE 2

\* One step of _req as it is recorded: the operation (token, get, nav, wait,
\* cookies, sleep), the attempt it belongs to, what came of it, and the
\* seconds slept.
Event(op, attempt, resp, secs) ==
    [op |-> op, attempt |-> attempt, status |-> resp.status, body |-> resp.body,
     secs |-> secs]

Raised == [status |-> "raise", body |-> "none"]
Done == [status |-> "ok", body |-> "none"]

ReqInit ==
    /\ r_ver \in FetchVersions
    /\ r_attempt = 1
    /\ r_log = <<>>
    /\ r_ret = NoResponse
    /\ r_pc = "call"

\* _req is not running.
ReqIdle ==
    /\ r_ver = "src/pahe-dl.py"
    /\ r_attempt = 1
    /\ r_log = <<>>
    /\ r_ret = NoResponse
    /\ r_pc = "idle"

\* The failure signal of _req: return None.
NoneReturned == [status |-> "None", body |-> "none"]

\* The except clause: log, sleep, and go to the next attempt; after the last
\* attempt the loop ends and _req returns None.
AfterException(events) ==
    /\ r_log' = r_log \o events
                 \o <<Event("sleep", r_attempt, Done, Backoff(r_ver, r_attempt))>>
    /\ IF r_attempt < Retry(r_ver)
       THEN r_attempt' = r_attempt + 1 /\ r_pc' = "get" /\ r_ret' = r_ret
       ELSE r_attempt' = r_attempt /\ r_pc' = "done" /\ r_ret' = NoneReturned

\* v2 line 319: self.throttler.wait_for_token() before the loop; src/pahe-dl.py
\* enters the loop at once.
ReqCall ==
    /\ r_pc = "call"
    /\ r_log' = IF r_ver = "src/v2/pahe-dl.py"
                THEN Append(r_log, Event("token", r_attempt, Done, 0))
                ELSE r_log
    /\ r_pc' = "get"
    /\ UNCHANGED <<r_ver, r_attempt, r_ret>>
    /\ UNCHANGED notReq

\* resp = self.sess.get(url) returns: a challenge leads to the browser, any
\* other response is returned.
ReqGet(resp) ==
    /\ r_pc = "get"
    /\ resp \in GetResponses(r_ver)
    /\ r_log' = Append(r_log, Event("get", r_attempt, resp, 0))
    /\ IF IsChallenge(r_ver, resp.body)
       THEN r_pc' = "browser" /\ r_ret' = r_ret
       ELSE r_pc' = "done" /\ r_ret' = resp
    /\ UNCHANGED <<r_ver, r_attempt>>
    /\ UNCHANGED notReq

\* resp = self.sess.get(url) raises.
ReqGetRaises ==
    /\ r_pc = "get"
    /\ AfterException(<<Event("get", r_attempt, Raised, 0)>>)
    /\ UNCHANGED r_ver
    /\ UNCHANGED notReq

\* The escalation without the transfer of the cookies.
EscalationNoCookies(ver, attempt) ==
    << Event("nav", attempt, Done, 0), Event("wait", attempt, Done, 0) >>
    \o (IF ver = "src/v2/pahe-dl.py" THEN <<Event("token", attempt, Done, 0)>>
        ELSE <<>>)
\* The escalation when nothing raises: self.driver.get(url), WebDriverWait for
\* the body, the browser's cookies set on the session, and in v2 another
\* wait_for_token() (src/pahe-dl.py:148-156, v2 lines 331-345).
Escalation(ver, attempt) ==
    << Event("nav", attempt, Done, 0), Event("wait", attempt, Done, 0),
       Event("cookies", attempt, Done, 0) >>
    \o (IF ver = "src/v2/pahe-dl.py" THEN <<Event("token", attempt, Done, 0)>>
        ELSE <<>>)

\* The browser fallback runs to its end.
ReqEscalate ==
    /\ r_pc = "browser"
    /\ r_log' = r_log \o Escalation(r_ver, r_attempt)
    /\ r_pc' = "get2"
    /\ UNCHANGED <<r_ver, r_attempt, r_ret>>
    /\ UNCHANGED notReq

\* self.driver.get(url) raises (the browser cannot load the page), or the
\* page is loaded and WebDriverWait(self.driver, 30) times out, or the page
\* is there and self.driver.get_cookies() raises.
ReqEscalateRaises(op) ==
    /\ r_pc = "browser"
    /\ AfterException(
           CASE op = "nav" -> <<Event("nav", r_attempt, Raised, 0)>>
             [] op = "wait" -> <<Event("nav", r_attempt, Done, 0),
                                 Event("wait", r_attempt, Raised, 0)>>
             [] op = "cookies" -> <<Event("nav", r_attempt, Done, 0),
                                    Event("wait", r_attempt, Done, 0),
                                    Event("cookies", r_attempt, Raised, 0)>>)
    /\ UNCHANGED r_ver
    /\ UNCHANGED notReq

\* The request repeated with the browser's cookies returns: its response is
\* returned as it is.
ReqGetAgain(resp) ==
    /\ r_pc = "get2"
    /\ resp \in GetResponses(r_ver)
    /\ r_log' = Append(r_log, Event("get2", r_attempt, resp, 0))
    /\ r_pc' = "done"
    /\ r_ret' = resp
    /\ UNCHANGED <<r_ver, r_attempt>>
    /\ UNCHANGED notReq

\* The request repeated with the browser's cookies raises.
ReqGetAgainRaises ==
    /\ r_pc = "get2"
    /\ AfterException(<<Event("get2", r_attempt, Raised, 0)>>)
    /\ UNCHANGED r_ver
    /\ UNCHANGED notReq

ReqNext ==
    \/ ReqCall
    \/ \E resp \in GetResponses("src/pahe-dl.py") : ReqGet(resp)
    \/ ReqGetRaises
    \/ ReqEscalate
    \/ \E op \in {"nav", "wait", "cookies"} : ReqEscalateRaises(op)
    \/ \E resp \in GetResponses("src/pahe-dl.py") : ReqGetAgain(resp)
    \/ ReqGetAgainRaises

\* Is the event a GET of the URL over HTTP.
IsGet(e) == e.op \in {"get", "get2"}

\* Between the events i and j the browser was navigated to the URL and its
\* cookies were copied into the session.
EscalatedBetween(i, j) ==
    \E k, l \in (i + 1)..(j - 1) :
        /\ k < l
        /\ r_log[k].op = "nav" /\ r_log[k].status = "ok"
        /\ r_log[l].op = "cookies" /\ r_log[l].status = "ok"

\* Between the events i and j the browser fallback raised.
EscalationRaisedBetween(i, j) ==
    \E k \in (i + 1)..(j - 1) :
        r_log[k].op \in {"nav", "wait", "cookies"} /\ r_log[k].status = "raise"

\* The pairs of events the claim is about: a GET whose response carries a
\* challenge marker, and a later GET.
ChallengedThenGet(i, j) ==
    /\ i < j
    /\ IsGet(r_log[i])
    /\ r_log[i].body \in Bodies \ {"clean"}
    /\ IsGet(r_log[j])

RetryBound == IF r_ver = "src/v2/pahe-dl.py" THEN 3 ELSE 2

\* The attempts in which something raised.
RaisedAttempts ==
    {r_log[i].attempt : i \in {k \in 1..Len(r_log) : r_log[k].status = "raise"}}

\* C17 (safety part): _req makes at most `retry` attempts; the response it
\* returns is the one got last in the first attempt that did not raise; it
\* returns None if and only if each of the `retry` attempts raised.
C17_RetryBound ==
    /\ r_attempt \in 1..RetryBound
    /\ Cardinality({i \in 1..Len(r_log) : r_log[i].op = "get"}) <= RetryBound
    /\ r_pc = "done" =>
           /\ r_ret = NoneReturned <=> RaisedAttempts = 1..RetryBound
           /\ r_ret # NoneReturned =>
                  /\ RaisedAttempts = 1..(r_attempt - 1)
                  /\ IsGet(r_log[Len(r_log)])
                  /\ r_log[Len(r_log)].attempt = r_attempt
                  /\ r_log[Len(r_log)].status = r_ret.status
                  /\ r_log[Len(r_log)].body = r_ret.body

\* C17: the retry bound holds and _req always terminates.
C17_BoundedRetries == []C17_RetryBound /\ <>(r_pc = "done")

\* Every attempt but the last raised, and the last returned a response.
C17_Witness ==
    /\ r_pc = "done"
    /\ r_attempt = RetryBound
    /\ r_ret \in GetResponses(r_ver)
    /\ RaisedAttempts = 1..(RetryBound - 1)

\* The seconds slept after the attempts that raised, in order.
Sleeps == SelectSeq(r_log, LAMBDA e : e.op = "sleep")

\* C18: in src/pahe-dl.py a response with status 429, 500, 502, 503 or 504 is
\* retried and not handed to the caller while retries remain, and the waits
\* between successive attempts grow exponentially.
C18_StatusRetriedWithBackoff ==
    r_ver = "src/pahe-dl.py" =>
        /\ (r_pc = "done" /\ r_ret.status = "429/5xx") => r_attempt = RetryBound
        /\ \A i \in 1..(Len(Sleeps) - 1) :
               Sleeps[i + 1].secs >= 2 * Sleeps[i].secs

\* The events of the first n entries of the record with one of the operations.
Count(ops, n) == Cardinality({i \in 1..n : r_log[i].op \in ops})

\* C28: in v2 every GET that _req sends, the first of an attempt, that of a
\* retry and the one repeated after the browser fallback, comes after a
\* wait_for_token() call of its own: at no point have more requests been sent
\* than tokens taken.
C28_EveryRequestTakesToken ==
    r_ver = "src/v2/pahe-dl.py" =>
        \A n \in 1..Len(r_log) : Count({"get", "get2"}, n) <= Count({"token"}, n)

\* C39: _req never hands a challenge page to its caller: a response it
\* returns has a body without a challenge marker; when the request repeated
\* after the browser escalation is challenged as well, _req escalates again
\* or returns None.
C39_NoChallengePageReturned ==
    (r_pc = "done" /\ r_ret # NoneReturned) => r_ret.body \notin Bodies \ {"clean"}

(***************************************************************************)
(* Link-resolution pipeline: download_episode (src/pahe-dl.py),            *)
(* _download_episode (v2), with the gateway stage _get_kwik_link /         *)
(* _get_pahe_kwik_link                                                     *)
(***************************************************************************)
\* Bound of the gateway page model: the number of anchors of the page.
MaxAnchors == 2

\* The URLs of the model: two on the file host, one that contains 'kwik' but
\* neither file-host domain, one without 'kwik'.
Urls == {"https://kwik.cx/f/x", "https://kwik.si/f/x", "https://kwik.fi/f/x",
         "https://pahe.win/a"}

\* "kwik.cx" in url or "kwik.si" in url
OnFileHost(url) == url \in {"https://kwik.cx/f/x", "https://kwik.si/f/x"}

\* 'kwik' in href, and the CSS selector a[href*='kwik']
ContainsKwik(url) ==
    url \in {"https://kwik.cx/f/x", "https://kwik.si/f/x", "https://kwik.fi/f/x"}

\* The anchors of the gateway page: href and class attribute.
Anchors == [href : Urls, class : {"", "button", "button is-primary"}]

GatewayPages == UNION {[1..n -> Anchors] : n \in 0..MaxAnchors}

\* The failure result of a stage: None.
NoLink == "None"

\* Does the element match the CSS selector.
Matches(a, selector) ==
    CASE selector = "a[href*='kwik']" -> ContainsKwik(a.href)
      [] selector = "a.button.is-primary" -> a.class = "button is-primary"
      [] selector = "a.button" -> a.class \in {"button", "button is-primary"}

\* The first element of the page that matches, as
\* presence_of_element_located returns it; <<>> when the wait times out.
FirstMatch(page, selector) ==
    LET m == SelectSeq(page, LAMBDA a : Matches(a, selector))
    IN  IF m = <<>> THEN <<>> ELSE <<Head(m)>>

\* _get_kwik_link (src/pahe-dl.py:313-338): the current URL when it is on the
\* file host, else the href of the first a[href*='kwik'], else None; None when
\* the navigation raises.
GetKwikLink(nav, current_url, page) ==
    IF nav = "raise" THEN NoLink
    ELSE IF OnFileHost(current_url) THEN current_url
    ELSE LET m == FirstMatch(page, "a[href*='kwik']")
         IN  IF m = <<>> THEN NoLink ELSE m[1].href

\* v2 lines 546-562: the selectors are tried in order; the first element of a
\* selector is taken when its href is on the file host.
RECURSIVE TrySelectors(_, _)
TrySelectors(page, selectors) ==
    IF selectors = <<>> THEN NoLink
    ELSE LET m == FirstMatch(page, Head(selectors))
         IN  IF m # <<>> /\ OnFileHost(m[1].href)
             THEN m[1].href
             ELSE TrySelectors(page, Tail(selectors))

\* _get_pahe_kwik_link (v2 lines 527-585): the current URL when it is on the
\* file host, else the selectors, else the first anchor of the page source
\* with 'kwik' in its href, else None; None when the navigation raises.
GetPaheKwikLink(nav, current_url, page) ==
    IF nav = "raise" THEN NoLink
    ELSE IF OnFileHost(current_url) THEN current_url
    ELSE LET found == TrySelectors(page, <<"a[href*='kwik']", "a.button.is-primary",
                                           "a.button">>)
             m == SelectSeq(page, LAMBDA a : ContainsKwik(a.href))
         IN  IF found # NoLink THEN found
             ELSE IF m # <<>> THEN Head(m).href
             ELSE NoLink

PipeInit ==
    /\ p_ver \in FetchVersions
    /\ p_nav \in {"ok", "raise"}
    /\ p_current_url \in Urls
    /\ p_page \in GatewayPages
    /\ p_trace = <<>>
    /\ p_kwik = NoLink
    /\ p_lease = "none"
    /\ p_returns = 0
    /\ p_ret = "none"
    /\ p_pc = IF p_ver = "src/v2/pahe-dl.py" THEN "browser" ELSE "extract"

\* No pipeline run is under way.
PipeIdle ==
    /\ p_ver = "src/pahe-dl.py"
    /\ p_nav = "ok"
    /\ p_current_url = "https://pahe.win/a"
    /\ p_page = <<>>
    /\ p_trace = <<>>
    /\ p_kwik = NoLink
    /\ p_lease = "none"
    /\ p_returns = 0
    /\ p_ret = "none"
    /\ p_pc = "idle"

\* `if not link` taken as never true.
NotLinkNever(link) == FALSE
\* `if not pahe_link`, `if not kwik_link`: the stage returned no link.
NotLink(link) == link = NoLink

\* A stage as the run records it: its name and what it returned.
StageRun(stage, out) == [stage |-> stage, out |-> out]

\* return_browser left out: the lease stays as it is.
ReturnedNever(state) == state

\* v2: self.browser_pool.return_browser(browser, dl_dir) before a return.
Returned(state) == IF state = "held" THEN "returned" ELSE state

\* The calls of return_browser after one more: download_episode of
\* src/pahe-dl.py has no lease and makes none.
OneMoreReturn(ver, n) == IF ver = "src/v2/pahe-dl.py" THEN n + 1 ELSE n

\* v2 line 863: browser, dl_dir = self.browser_pool.get_browser(), outside the
\* try block: when it raises, _download_episode raises.
PipeGetBrowser(ok) ==
    /\ p_pc = "browser"
    /\ IF ok
       THEN p_lease' = "held" /\ p_pc' = "extract" /\ p_ret' = p_ret
       ELSE p_lease' = p_lease /\ p_pc' = "done" /\ p_ret' = "raised"
    /\ UNCHANGED <<p_ver, p_nav, p_current_url, p_page, p_trace, p_kwik, p_returns>>
    /\ UNCHANGED notPipe

\* Stage 1: _extract_download_links returns a gateway link or None; on None
\* the run returns False.
PipeExtract(link) ==
    /\ p_pc = "extract"
    /\ p_trace' = Append(p_trace, StageRun("extract", link))
    /\ IF NotLink(link)
       THEN /\ p_pc' = "done" /\ p_ret' = "False" /\ p_lease' = Returned(p_lease)
            /\ p_returns' = OneMoreReturn(p_ver, p_returns)
       ELSE /\ p_pc' = "gateway" /\ p_ret' = p_ret /\ p_lease' = p_lease
            /\ p_returns' = p_returns
    /\ UNCHANGED <<p_ver, p_nav, p_current_url, p_page, p_kwik>>
    /\ UNCHANGED notPipe

\* Stage 2: the gateway returns the file-host link or None; on None the run
\* returns False, otherwise the link is handed to the download stage.
PipeGateway ==
    /\ p_pc = "gateway"
    /\ LET link == IF p_ver = "src/v2/pahe-dl.py"
                   THEN GetPaheKwikLink(p_nav, p_current_url, p_page)
                   ELSE GetKwikLink(p_nav, p_current_url, p_page)
       IN  /\ p_trace' = Append(p_trace, StageRun("gateway", link))
           /\ p_kwik' = link
           /\ IF NotLink(link)
              THEN /\ p_pc' = "done" /\ p_ret' = "False" /\ p_lease' = Returned(p_lease)
                   /\ p_returns' = OneMoreReturn(p_ver, p_returns)
              ELSE /\ p_pc' = "download" /\ p_ret' = p_ret /\ p_lease' = p_lease
                   /\ p_returns' = p_returns
    /\ UNCHANGED <<p_ver, p_nav, p_current_url, p_page>>
    /\ UNCHANGED notPipe

\* Stage 3: _handle_kwik_download / _handle_kwik_form_submission runs on the
\* link and its result is returned.
PipeDownload(result) ==
    /\ p_pc = "download"
    /\ p_trace' = Append(p_trace, StageRun("download", result))
    /\ p_lease' = Returned(p_lease)
    /\ p_returns' = OneMoreReturn(p_ver, p_returns)
    /\ p_ret' = result
    /\ p_pc' = "done"
    /\ UNCHANGED <<p_ver, p_nav, p_current_url, p_page, p_kwik>>
    /\ UNCHANGED notPipe

\* v2 lines 890-894: an exception that leaves a stage is caught by
\* _download_episode: "Error downloading episode", return_browser, return
\* False.
PipeStageRaises ==
    /\ p_pc \in {"extract", "gateway", "download"}
    /\ p_ver = "src/v2/pahe-dl.py"
    /\ p_trace' = Append(p_trace, StageRun(p_pc, "raise"))
    /\ p_lease' = Returned(p_lease)
    /\ p_returns' = OneMoreReturn(p_ver, p_returns)
    /\ p_ret' = "False"
    /\ p_pc' = "done"
    /\ UNCHANGED <<p_ver, p_nav, p_current_url, p_page, p_kwik>>
    /\ UNCHANGED notPipe

PipeNext ==
    \/ \E ok \in BOOLEAN : PipeGetBrowser(ok)
    \/ \E link \in {NoLink, "https://pahe.win/a"} : PipeExtract(link)
    \/ PipeGateway
    \/ \E result \in {"True", "False"} : PipeDownload(result)
    \/ PipeStageRaises

\* The stages of the pipeline, in order.
StageOrder == <<"extract", "gateway", "download">>

\* Did the stage return failure.
StageFailed(run) == run.out \in {NoLink, "False"}

\* C19: the stages run in the order quality extraction, gateway redirect, file
\* download, each at most once; after a stage that failed no stage is started
\* (neither a later one nor the same again) and the call returns False.
C19_StagesInOrderFailureTerminal ==
    /\ Len(p_trace) <= Len(StageOrder)
    /\ \A i \in 1..Len(p_trace) : p_trace[i].stage = StageOrder[i]
    /\ \A i \in 1..Len(p_trace) : StageFailed(p_trace[i]) =>
           /\ i = Len(p_trace)
           /\ p_pc = "done"
           /\ p_ret = "False"
    /\ p_ret = "True" => Len(p_trace) = Len(StageOrder)

\* The gateway stage failed after a successful extraction: the run is over
\* with False and the download stage was not started.
C19_Witness ==
    /\ p_pc = "done"
    /\ p_ret = "False"
    /\ Len(p_trace) = 2
    /\ ~StageFailed(p_trace[1])
    /\ StageFailed(p_trace[2])

\* C20: every result of the gateway stage other than None is a URL on the file
\* host (it contains kwik.cx or kwik.si), so the download stage is never
\* started with a URL that is not on the file host.
C20_GatewayResultOnFileHost ==
    /\ p_kwik # NoLink => OnFileHost(p_kwik)
    /\ \A i \in 1..Len(p_trace) :
           p_trace[i].stage = "download" => OnFileHost(p_kwik)

\* C34: when _download_episode has ended, the lease it acquired has been
\* returned to the pool exactly once - after success, after a failed
\* extraction, gateway or download stage, and after an exception raised by a
\* stage; a call that acquired no lease returns none.
C34_LeaseReturnedExactlyOnce ==
    (p_ver = "src/v2/pahe-dl.py" /\ p_pc = "done") =>
        /\ p_lease # "held"
        /\ p_returns = (IF p_lease = "returned" THEN 1 ELSE 0)
        /\ p_ret \in {"True", "False"} => p_lease = "returned"

\* A stage raised after the lease was taken and the run is over, the lease
\* returned by the handler.
C34_Witness ==
    /\ p_ver = "src/v2/pahe-dl.py"
    /\ p_pc = "done"
    /\ p_lease = "returned"
    /\ p_returns = 1
    /\ p_trace # <<>>
    /\ p_trace[Len(p_trace)].out = "raise"

(***************************************************************************)
(* BrowserPool.close_all                                                   *)
(***************************************************************************)
CloseAllInit ==
    /\ ca_pc = "idle"
    /\ ca_browsers = <<>>
    /\ ca_at_call = {}

CloseAllIdle == CloseAllInit

\* The browsers of the leases of a deque or of a set.
BrowsersOfSeq(leases) == {leases[i][1] : i \in 1..Len(leases)}
BrowsersOf(leases) == {l[1] : l \in leases}

\* list(self.in_use): the members of the set in some order.
Orderings(S) ==
    {q \in [1..Cardinality(S) -> S] : \A i, j \in 1..Cardinality(S) : q[i] = q[j] => i = j}

\* close_all() is called (line 185), once, by the thread that tears the
\* downloader down; the workers go on running.
CloseAll ==
    /\ ca_pc = "idle"
    /\ ca_pc' = "snap_idle"
    /\ ca_at_call' = BrowsersOfSeq(available) \cup BrowsersOf(in_use)
    /\ UNCHANGED ca_browsers
    /\ UNCHANGED poolVars
    /\ UNCHANGED notPoolNorClose

\* Lines 187-189: under self.lock, copy the idle deque and clear it.
SnapshotIdle ==
    /\ ca_pc = "snap_idle"
    /\ pool_lock = NoThread
    /\ ca_browsers' = available
    /\ available' = <<>>
    /\ ca_pc' = "quit_idle"
    /\ UNCHANGED <<in_use, pool_lock, creation_lock, pool_pc, lease, br_state, created, ca_at_call>>
    /\ UNCHANGED notPoolNorClose

\* Lines 192-196 and 203-207: browser.quit() for the next lease of the list;
\* an exception of quit() is logged and the loop goes on.
QuitNext(raises) ==
    /\ ca_pc \in {"quit_idle", "quit_in_use"}
    /\ ca_browsers # <<>>
    /\ br_state' = [br_state EXCEPT ![Head(ca_browsers)[1]] =
                        IF raises THEN "quit_raised" ELSE "closed"]
    /\ ca_browsers' = Tail(ca_browsers)
    /\ UNCHANGED <<available, in_use, pool_lock, creation_lock, pool_pc, lease, created,
                   ca_pc, ca_at_call>>
    /\ UNCHANGED notPoolNorClose

\* Line 196: the first loop is over.
QuitIdleEnd ==
    /\ ca_pc = "quit_idle"
    /\ ca_browsers = <<>>
    /\ ca_pc' = "snap_in_use"
    /\ UNCHANGED <<ca_browsers, ca_at_call>>
    /\ UNCHANGED poolVars
    /\ UNCHANGED notPoolNorClose

\* Lines 199-201: under self.lock, copy the in-use set and clear it.
SnapshotInUse ==
    /\ ca_pc = "snap_in_use"
    /\ pool_lock = NoThread
    /\ ca_browsers' \in Orderings(in_use)
    /\ in_use' = {}
    /\ ca_pc' = "quit_in_use"
    /\ UNCHANGED <<available, pool_lock, creation_lock, pool_pc, lease, br_state, created,
                   ca_at_call>>
    /\ UNCHANGED notPoolNorClose

\* Line 207: the second loop is over and close_all returns.
CloseAllReturn ==
    /\ ca_pc = "quit_in_use"
    /\ ca_browsers = <<>>
    /\ ca_pc' = "done"
    /\ UNCHANGED <<ca_browsers, ca_at_call>>
    /\ UNCHANGED poolVars
    /\ UNCHANGED notPoolNorClose

CloseAllNext ==
    \/ CloseAll
    \/ SnapshotIdle
    \/ \E raises \in BOOLEAN : QuitNext(raises)
    \/ QuitIdleEnd
    \/ SnapshotInUse
    \/ CloseAllReturn

\* The pool with its workers and the thread that shuts it down.
PoolCloseNext ==
    \/ PoolNext
    \/ CloseAllNext

\* browser.quit() was called on browser b.
QuitInvoked(b) == br_state[b] \in {"closed", "quit_raised"}

\* C21: when close_all returns, every browser that was idle or in use when it
\* was called has had quit() invoked and is in neither the idle deque nor the
\* in-use set, also when quit() raises and when workers call return_browser
\* meanwhile.
C21_CloseAllClosesEverything ==
    [][(ca_pc # "done" /\ ca_pc' = "done") =>
           \A b \in ca_at_call :
               /\ QuitInvoked(b)'
               /\ b \notin (BrowsersOfSeq(available) \cup BrowsersOf(in_use))']_vars

\* The step of worker w in which get_browser hands it a lease.
Gets_browser(w) == pool_pc[w] # "holding" /\ pool_pc'[w] = "holding"

\* C35: the pool never hands out a dead browser: the idle deque never holds a
\* browser on which quit() has been invoked, and get_browser never returns
\* one, for any interleaving of get_browser, return_browser and close_all.
C35_NeverHandsOutDeadBrowser ==
    /\ [](\A i \in 1..Len(available) : ~QuitInvoked(available[i][1]))
    /\ [][\A w \in Workers : Gets_browser(w) => ~QuitInvoked(lease'[w][1])]_vars

\* Worker w is inside get_browser or return_browser.
InCall(w) == pool_pc[w] \notin {"idle", "holding"}

\* The thread that shuts the pool down is inside close_all.
Closing == ca_pc \notin {"idle", "done"}

\* The steps of worker w inside a call.
WorkerStep(w) ==
    \/ AcquirePoolLock(w)
    \/ FirstCheckHit(w)
    \/ FirstCheckMiss(w)
    \/ AcquireCreationLock(w)
    \/ SecondCheckHit(w)
    \/ SecondCheckMiss(w)
    \/ CreateStart(w)
    \/ CreateDone(w)
    \/ CreateFail(w)
    \/ AddInUse(w)
    \/ ReturnKeep(w)
    \/ ReturnClose(w)

\* The steps of close_all after the call.
CloserStep ==
    \/ SnapshotIdle
    \/ \E raises \in BOOLEAN : QuitNext(raises)
    \/ QuitIdleEnd
    \/ SnapshotInUse
    \/ CloseAllReturn

\* The thread that holds the lock worker w is waiting at: NoThread when w is
\* not at a `with` statement or the lock is free.
WaitsFor(w) ==
    CASE pool_pc[w] \in {"g_lock1", "g_lock2", "g_lock3", "r_lock"} -> pool_lock
      [] pool_pc[w] = "g_clock" -> creation_lock
      [] OTHER -> NoThread

\* Worker w can take a step, or waits for a lock whose holder can take a
\* step, or whose holder waits for a lock whose holder can take a step.
CanReturn(w) ==
    \/ ENABLED WorkerStep(w)
    \/ \E h \in Workers :
           /\ h = WaitsFor(w)
           /\ \/ ENABLED WorkerStep(h)
              \/ \E g \in Workers : g = WaitsFor(h) /\ ENABLED WorkerStep(g)

\* The steps a call of worker w has left at most, by the place it is at.
StepsLeft(pc) ==
    CASE pc = "g_lock1" -> 10
      [] pc = "g_check1" -> 9
      [] pc = "g_clock" -> 8
      [] pc = "g_lock2" -> 7
      [] pc = "g_check2" -> 6
      [] pc = "g_create" -> 5
      [] pc = "g_creating" -> 4
      [] pc = "g_lock3" -> 3
      [] pc = "g_add" -> 2
      [] pc = "r_lock" -> 2
      [] pc = "r_body" -> 1
      [] OTHER -> 0

\* The steps close_all has left at most.
CloserStepsLeft(pc, browsers) ==
    CASE pc = "snap_idle" -> 4 + MaxBrowsers + MaxBrowsers
      [] pc = "quit_idle" -> 3 + MaxBrowsers + Len(browsers)
      [] pc = "snap_in_use" -> 2 + MaxBrowsers
      [] pc = "quit_in_use" -> 1 + Len(browsers)
      [] OTHER -> 0

\* C40: the pool is deadlock-free: a thread inside get_browser, return_browser
\* or close_all is never stuck - it can take a step, or the lock it waits for
\* is held by a thread that can (directly or after the lock that one waits
\* for is released) - so no threads wait on each other for the pool lock and
\* the creation lock; and every step inside a call brings the call nearer to
\* its return, so with threads that keep running every call returns.
C40_DeadlockFree ==
    /\ [](\A w \in Workers : InCall(w) => CanReturn(w))
    /\ [](Closing => \/ ENABLED CloserStep
                      \/ \E h \in Workers : h = pool_lock /\ ENABLED WorkerStep(h))
    /\ [][\A w \in Workers :
              (InCall(w) /\ pool_pc'[w] # pool_pc[w]) =>
                  StepsLeft(pool_pc'[w]) < StepsLeft(pool_pc[w])]_vars
    /\ [][(Closing /\ <<ca_pc, ca_browsers>>' # <<ca_pc, ca_browsers>>) =>
              CloserStepsLeft(ca_pc', ca_browsers') < CloserStepsLeft(ca_pc, ca_browsers)]_vars

\* A worker holds the creation lock and waits for the pool lock, which another
\* worker holds; a third waits for the creation lock and close_all waits for
\* the pool lock.
C40_Witness ==
    /\ \E w \in Workers : creation_lock = w /\ pool_pc[w] = "g_lock2" /\ pool_lock # NoThread
    /\ \E w \in Workers : pool_pc[w] = "g_clock"
    /\ ca_pc \in {"snap_idle", "snap_in_use"}

(***************************************************************************)
(* Download strategies: _handle_kwik_download (src/pahe-dl.py:340-451)     *)
(***************************************************************************)
\* output_path before the call: the orchestrator calls the pipeline for a path
\* that does not exist; download_episode called by itself may find a file.
KwikInit ==
    /\ k_out \in {"absent", "partial", "complete"}
    /\ k_trace = <<>>
    /\ k_via = "none"
    /\ k_chunks = 0
    /\ k_ret = "none"
    /\ k_pc = "open"

KwikIdle ==
    /\ k_out = "absent"
    /\ k_trace = <<>>
    /\ k_via = "none"
    /\ k_chunks = 0
    /\ k_ret = "none"
    /\ k_pc = "idle"

\* One attempt of a strategy, whether it succeeded and how it ended.
Attempt(strategy, ok, how) == [strategy |-> strategy, ok |-> ok, how |-> how]

\* Lines 344-365, in three steps: the kwik page is opened and the download
\* path set (344-352, "open"); the button, the form and its token are found
\* (355-361, "form"); the button is clicked (364-367, "click").  An exception
\* of any of them is caught at line 449: return False.
KwikOpen(ok) ==
    /\ k_pc \in {"open", "form", "click"}
    /\ IF ok
       THEN /\ k_pc' = CASE k_pc = "open" -> "form"
                         [] k_pc = "form" -> "click"
                         [] k_pc = "click" -> "anchor"
            /\ k_ret' = k_ret
       ELSE k_pc' = "done" /\ k_ret' = "False"
    /\ UNCHANGED <<k_out, k_trace, k_via, k_chunks>>
    /\ UNCHANGED notKwik

\* Lines 368-378: wait for a[download] / a.button.is-success.  With an anchor
\* that has an href, _download_file is called and its result returned; a
\* timeout (bare except: pass) or an anchor without href leads to the form POST.
KwikAnchor(found) ==
    /\ k_pc = "anchor"
    /\ IF found = "href"
       THEN /\ k_pc' = "stream"
            /\ k_via' = "direct"
            /\ k_trace' = k_trace
       ELSE /\ k_pc' = "post"
            /\ k_via' = k_via
            /\ k_trace' = Append(k_trace, Attempt("direct", FALSE, found))
    /\ UNCHANGED <<k_out, k_chunks, k_ret>>
    /\ UNCHANGED notKwik

\* _download_file, lines 542-549: the streaming GET and raise_for_status; with
\* a good response the output file is opened for writing.
KwikStream(ok) ==
    /\ k_pc = "stream"
    /\ IF ok
       THEN k_pc' = "write" /\ k_out' = "partial"
       ELSE k_pc' = "dl_failed" /\ k_out' = k_out
    /\ UNCHANGED <<k_trace, k_via, k_chunks, k_ret>>
    /\ UNCHANGED notKwik

\* _download_file, lines 556-559: a chunk is written.
KwikWriteChunk ==
    /\ k_pc = "write"
    /\ k_chunks < MaxChunks
    /\ k_chunks' = k_chunks + 1
    /\ UNCHANGED <<k_out, k_trace, k_via, k_ret, k_pc>>
    /\ UNCHANGED notKwik

\* _download_file, lines 556-562: the stream ends and True is returned, which
\* _handle_kwik_download returns (lines 377, 436); or the stream breaks.
KwikStreamEnd(ok) ==
    /\ k_pc = "write"
    /\ IF ok
       THEN /\ k_out' = "complete"
            /\ k_trace' = Append(k_trace, Attempt(k_via, TRUE, "streamed"))
            /\ k_ret' = "True"
            /\ k_pc' = "done"
       ELSE /\ k_pc' = "dl_failed"
            /\ UNCHANGED <<k_out, k_trace, k_ret>>
    /\ UNCHANGED <<k_via, k_chunks>>
    /\ UNCHANGED notKwik

\* _download_file, lines 563-572: max_retries is 1, so the first exception is
\* the last: the file is removed if it exists and False is returned, which
\* _handle_kwik_download returns (lines 377, 436).
KwikDownloadFailed ==
    /\ k_pc = "dl_failed"
    /\ k_out' = "absent"
    /\ k_trace' = Append(k_trace, Attempt(k_via, FALSE, "stream failed"))
    /\ k_ret' = "False"
    /\ k_pc' = "done"
    /\ UNCHANGED <<k_via, k_chunks>>
    /\ UNCHANGED notKwik

\* Lines 381-402: the browser's cookies and user agent are read and the form is
\* posted with the session; an exception is caught at line 438 and logged.
KwikPost(ok) ==
    /\ k_pc = "post"
    /\ IF ok
       THEN k_pc' = "response" /\ k_trace' = k_trace
       ELSE k_pc' = "poll" /\ k_trace' = Append(k_trace, Attempt("post", FALSE, "raises"))
    /\ UNCHANGED <<k_out, k_via, k_chunks, k_ret>>
    /\ UNCHANGED notKwik

\* Lines 405-417: Content-Type / Content-Disposition tell a file from a page;
\* for a file output_path is opened for writing.
KwikResponse(isFile) ==
    /\ k_pc = "response"
    /\ IF isFile
       THEN k_pc' = "post_write" /\ k_out' = "partial"
       ELSE k_pc' = "parse" /\ k_out' = k_out
    /\ UNCHANGED <<k_trace, k_via, k_chunks, k_ret>>
    /\ UNCHANGED notKwik

\* Lines 424-427: a chunk of the response is written.
KwikPostWriteChunk ==
    /\ k_pc = "post_write"
    /\ k_chunks < MaxChunks
    /\ k_chunks' = k_chunks + 1
    /\ UNCHANGED <<k_out, k_trace, k_via, k_ret, k_pc>>
    /\ UNCHANGED notKwik

\* Lines 424-430: the response ends: return True; or the stream breaks: the
\* exception is caught at line 438 and the file stays as far as it was written.
KwikPostWriteEnd(ok) ==
    /\ k_pc = "post_write"
    /\ IF ok
       THEN /\ k_out' = "complete"
            /\ k_trace' = Append(k_trace, Attempt("post", TRUE, "saved"))
            /\ k_ret' = "True"
            /\ k_pc' = "done"
       ELSE /\ k_out' = k_out
            /\ k_trace' = Append(k_trace, Attempt("post", FALSE, "stream failed"))
            /\ k_ret' = k_ret
            /\ k_pc' = "poll"
    /\ UNCHANGED <<k_via, k_chunks>>
    /\ UNCHANGED notKwik

\* Lines 432-436: the page of the response is searched for a download anchor;
\* with one, _download_file is called and its result returned.
KwikParse(link) ==
    /\ k_pc = "parse"
    /\ IF link
       THEN /\ k_pc' = "stream"
            /\ k_via' = "post"
            /\ k_trace' = k_trace
       ELSE /\ k_pc' = "poll"
            /\ k_via' = k_via
            /\ k_trace' = Append(k_trace, Attempt("post", FALSE, "no link"))
    /\ UNCHANGED <<k_out, k_chunks, k_ret>>
    /\ UNCHANGED notKwik

\* os.path.exists(output_path), line 447
OutputExists(out) == out # "absent"

\* What _wait_for_download_complete comes to: True after it has moved a
\* finished video file to output_path; False on its timeout or when the move
\* fails; an exception of os.listdir or os.path.getmtime.
PollResults == {"moved", "timeout", "raises"}

\* Lines 442-447: _wait_for_download_complete(output_path, timeout=120), its
\* result dropped, then return os.path.exists(output_path); an exception of
\* the wait is caught at line 449: return False.
KwikPoll(result) ==
    /\ k_pc = "poll"
    /\ result \in PollResults
    /\ k_out' = IF result = "moved" THEN "complete" ELSE k_out
    /\ k_trace' = Append(k_trace, Attempt("poll", result = "moved", result))
    /\ k_ret' = IF result # "raises" /\ OutputExists(k_out') THEN "True" ELSE "False"
    /\ k_pc' = "done"
    /\ UNCHANGED <<k_via, k_chunks>>
    /\ UNCHANGED notKwik

KwikNext ==
    \/ \E ok \in BOOLEAN : KwikOpen(ok)
    \/ \E found \in {"href", "no href", "no anchor"} : KwikAnchor(found)
    \/ \E ok \in BOOLEAN : KwikStream(ok)
    \/ KwikWriteChunk
    \/ \E ok \in BOOLEAN : KwikStreamEnd(ok)
    \/ KwikDownloadFailed
    \/ \E ok \in BOOLEAN : KwikPost(ok)
    \/ \E isFile \in BOOLEAN : KwikResponse(isFile)
    \/ KwikPostWriteChunk
    \/ \E ok \in BOOLEAN : KwikPostWriteEnd(ok)
    \/ \E link \in BOOLEAN : KwikParse(link)
    \/ \E result \in PollResults : KwikPoll(result)

\* The priority of a strategy.
Rank(strategy) ==
    CASE strategy = "direct" -> 1
      [] strategy = "post" -> 2
      [] strategy = "poll" -> 3

\* C25: when _handle_kwik_download has returned, the strategies it attempted
\* are the first ones of the order direct stream, form POST, directory polling:
\* each was attempted after all earlier ones had failed, none but the last one
\* attempted succeeded, a failed one was followed by the next, and the value
\* returned is True if and only if one of them succeeded.
C25_StrategiesInOrderFirstSuccessWins ==
    k_pc = "done" =>
        /\ \A i \in 1..Len(k_trace) : Rank(k_trace[i].strategy) = i
        /\ \A i \in 1..Len(k_trace) - 1 : ~k_trace[i].ok
        /\ k_trace # <<>> /\ ~k_trace[Len(k_trace)].ok => k_trace[Len(k_trace)].strategy = "poll"
        /\ k_ret = "True" <=> \E i \in 1..Len(k_trace) : k_trace[i].ok

\* C37: _handle_kwik_download returns True only with a completely downloaded
\* file at output_path, and a stream that broke off does not leave a partial
\* file at output_path, which a later run would skip as existing.
C37_TrueOnlyWithCompleteFile ==
    k_pc = "done" =>
        /\ k_ret = "True" => k_out = "complete"
        /\ (\E i \in 1..Len(k_trace) : k_trace[i].how = "stream failed") =>
               k_out # "partial"

(***************************************************************************)
(* Episode-page fetch of _extract_download_links                           *)
(***************************************************************************)
\* Bound of the model: the episodes _extract_download_links is called for.
MaxEpisodeCalls == 2

\* What self._req(episode_url) returns, as the function tells it apart: None,
\* a status other than 200, a 200 page with the #pickDownload menu, and a 200
\* page without it.
PageResponses == {"None", "not 200", "200 menu", "200 no menu"}

\* One recorded step: an HTTP GET of the session, a navigation of the browser,
\* or a transfer of the browser's cookies to the session; the code that took
\* it (_req, the fallback of lines 221-227, the direct extraction of v2) and
\* the call it belongs to.
Step(op, by, call) == [op |-> op, by |-> by, call |-> call]

\* The steps of one self._req(episode_url): a GET, and when its response
\* carries a challenge marker the browser navigation, the cookie transfer and
\* the repeated GET (src/pahe-dl.py:144-157, v2 lines 323-345).
ReqSteps(challenged, call) ==
    IF challenged
    THEN << Step("get", "_req", call), Step("nav", "_req", call),
            Step("cookies", "_req", call), Step("get", "_req", call) >>
    ELSE << Step("get", "_req", call) >>

EpageInit ==
    /\ e_ver \in FetchVersions
    /\ e_call = 1
    /\ e_resp = "none"
    /\ e_source = "none"
    /\ e_log = <<>>
    /\ e_ret = "none"
    /\ e_pc = "req"

EpageIdle ==
    /\ e_ver = "src/pahe-dl.py"
    /\ e_call = 1
    /\ e_resp = "none"
    /\ e_source = "none"
    /\ e_log = <<>>
    /\ e_ret = "none"
    /\ e_pc = "idle"

\* src/pahe-dl.py:219-220, v2 lines 427-429: resp = self._req(episode_url);
\* `if not resp or resp.status_code != 200` chooses the browser.
EpageReq(resp, challenged) ==
    /\ e_pc = "req"
    /\ resp \in PageResponses
    /\ e_resp' = resp
    /\ e_log' = e_log \o ReqSteps(challenged, e_call)
    /\ IF resp \in {"None", "not 200"}
       THEN e_pc' = "fallback" /\ e_source' = e_source
       ELSE e_pc' = "parse" /\ e_source' = "http"
    /\ UNCHANGED <<e_ver, e_call, e_ret>>
    /\ UNCHANGED notEpage

\* src/pahe-dl.py:221-227, v2 lines 430-439: self.driver.get(episode_url), the
\* wait for #pickDownload, and the page source taken for parsing.  When the
\* wait times out its exception is caught at the end of the function: return
\* None.
EpageFallback(ok) ==
    /\ e_pc = "fallback"
    /\ e_log' = Append(e_log, Step("nav", "fallback", e_call))
    /\ IF ok
       THEN e_pc' = "parse" /\ e_source' = "browser" /\ e_ret' = e_ret
       ELSE e_pc' = "done" /\ e_source' = e_source /\ e_ret' = "None"
    /\ UNCHANGED <<e_ver, e_call, e_resp>>
    /\ UNCHANGED notEpage

\* soup.select_one("#pickDownload") finds the menu: in the page source of the
\* browser, which the wait has seen the menu in, and in a 200 page that has it.
MenuFound(source, resp) == source = "browser" \/ resp = "200 menu"

\* src/pahe-dl.py:232-235 and on, v2 lines 444-446 and 492-519: with the menu
\* the links are parsed and one is selected (None when no anchor is valid).
\* Without the menu src/pahe-dl.py returns None; v2 goes on to the direct
\* extraction.
EpageParse(valid) ==
    /\ e_pc = "parse"
    /\ IF MenuFound(e_source, e_resp)
       THEN /\ e_ret' = IF valid THEN "link" ELSE "None"
            /\ e_pc' = "done"
       ELSE IF e_ver = "src/v2/pahe-dl.py"
            THEN e_ret' = e_ret /\ e_pc' = "dom"
            ELSE e_ret' = "None" /\ e_pc' = "done"
    /\ UNCHANGED <<e_ver, e_call, e_resp, e_source, e_log>>
    /\ UNCHANGED notEpage

\* v2 lines 449-490: driver.get(episode_url), the dropdown is opened and its
\* items are read from the live page; no item, or an exception: return None.
EpageDom(valid) ==
    /\ e_pc = "dom"
    /\ e_log' = Append(e_log, Step("nav", "dom", e_call))
    /\ e_source' = "dom"
    /\ e_ret' = IF valid THEN "link" ELSE "None"
    /\ e_pc' = "done"
    /\ UNCHANGED <<e_ver, e_call, e_resp>>
    /\ UNCHANGED notEpage

\* The orchestrator goes on to the next episode and its pipeline calls
\* _extract_download_links again (src/pahe-dl.py:683-693 and 646).
EpageNextCall ==
    /\ e_pc = "done"
    /\ e_call < MaxEpisodeCalls
    /\ e_call' = e_call + 1
    /\ e_resp' = "none"
    /\ e_source' = "none"
    /\ e_ret' = "none"
    /\ e_pc' = "req"
    /\ UNCHANGED <<e_ver, e_log>>
    /\ UNCHANGED notEpage

EpageNext ==
    \/ \E resp \in PageResponses, challenged \in BOOLEAN : EpageReq(resp, challenged)
    \/ \E ok \in BOOLEAN : EpageFallback(ok)
    \/ \E valid \in BOOLEAN : EpageParse(valid)
    \/ \E valid \in BOOLEAN : EpageDom(valid)
    \/ EpageNextCall

\* C29: after every navigation of the browser to a page of the site, the
\* browser's cookies are copied into the session before the session sends its
\* next request.
C29_CookiesBridgedBeforeNextRequest ==
    \A i, j \in 1..Len(e_log) :
        (i < j /\ e_log[i].op = "nav" /\ e_log[j].op = "get") =>
            \E k \in (i + 1)..(j - 1) : e_log[k].op = "cookies"

\* C30: in src/pahe-dl.py a call that reports failure after the HTTP fetch
\* failed (no response, a status other than 200, or a 200 page without the
\* download menu) has navigated the browser to the episode page before.
C30_BrowserTriedBeforeFailure ==
    (/\ e_ver = "src/pahe-dl.py"
     /\ e_pc = "done"
     /\ e_ret = "None"
     /\ e_resp \in {"None", "not 200", "200 no menu"}) =>
        \E i \in 1..Len(e_log) :
            e_log[i] = Step("nav", "fallback", e_call)

(***************************************************************************)
(* main and download of src/v2/pahe-dl.py (lines 966-996, 1015-1068)       *)
(***************************************************************************)
\* Who calls download: main, with the keyword argument workers (lines
\* 1051-1056), or a caller that passes the three parameters download declares.
Callers == {"main", "declared"}

MainInit ==
    /\ m_caller \in Callers
    /\ m_eps \in SUBSET Episodes
    /\ m_exists \in SUBSET Episodes
    /\ m_outcome = [n \in Episodes |-> "pending"]
    /\ m_idx = 0
    /\ m_success = 0
    /\ m_err = "none"
    /\ m_log = <<>>
    /\ m_pc = IF m_caller = "main" THEN "search" ELSE "download"

\* Neither main nor download is running.
MainIdle ==
    /\ m_caller = "main"
    /\ m_eps = {}
    /\ m_exists = {}
    /\ m_outcome = [n \in Episodes |-> "pending"]
    /\ m_idx = 0
    /\ m_success = 0
    /\ m_err = "none"
    /\ m_log = <<>>
    /\ m_pc = "idle"

\* main, lines 1041-1048: results = dl.search(args.name); without a result
\* "No results found" and return (the finally block runs).
MainSearch(found) ==
    /\ m_pc = "search"
    /\ IF found
       THEN /\ m_pc' = "call"
            /\ m_log' = Append(m_log, "Selected title")
       ELSE /\ m_pc' = "finally"
            /\ m_log' = Append(m_log, "No results found")
    /\ UNCHANGED <<m_caller, m_eps, m_exists, m_outcome, m_idx, m_success, m_err>>
    /\ UNCHANGED notMain

\* main, lines 1051-1056: dl.download((title, session_id), (start, end),
\* quality, workers=args.workers).  download(self, anime_info, ep_range,
\* quality) at line 966 has no parameter `workers`: the call raises TypeError
\* before a statement of download runs.
MainCallDownload ==
    /\ m_pc = "call"
    /\ m_err' = "TypeError"
    /\ m_pc' = "except"
    /\ UNCHANGED <<m_caller, m_eps, m_exists, m_outcome, m_idx, m_success, m_log>>
    /\ UNCHANGED notMain

\* main, lines 1060-1061: except Exception: "Unhandled exception: ...".
MainExcept ==
    /\ m_pc = "except"
    /\ m_log' = Append(m_log, "Unhandled exception")
    /\ m_pc' = "finally"
    /\ UNCHANGED <<m_caller, m_eps, m_exists, m_outcome, m_idx, m_success, m_err>>
    /\ UNCHANGED notMain

\* main, lines 1062-1068: the finally block quits the primary browser:
\* "Browser resources released".
MainFinally ==
    /\ m_pc = "finally"
    /\ m_log' = Append(m_log, "Browser resources released")
    /\ m_pc' = "done"
    /\ UNCHANGED <<m_caller, m_eps, m_exists, m_outcome, m_idx, m_success, m_err>>
    /\ UNCHANGED notMain

\* download, lines 971-981: eps = self.fetch_episodes(...); without episodes
\* "No episodes found" and return; else the loop over sorted(eps.items()).
DownloadFetch ==
    /\ m_pc = "download"
    /\ IF m_eps = {}
       THEN /\ m_log' = Append(m_log, "No episodes found")
            /\ m_pc' = "done"
       ELSE /\ m_log' = Append(m_log, "Output directory")
            /\ m_pc' = "loop"
    /\ UNCHANGED <<m_caller, m_eps, m_exists, m_outcome, m_idx, m_success, m_err>>
    /\ UNCHANGED notMain

\* for num, url in sorted(eps.items()) (line 982): the episodes still to come.
ToCome == {n \in m_eps : n > m_idx}

\* The next episode of the loop.
NextEpisode == CHOOSE n \in ToCome : \A k \in ToCome : n <= k

\* download, lines 986-989: the output file exists: "Skipping existing
\* episode", success += 1, continue.
DownloadSkip ==
    /\ m_pc = "loop"
    /\ ToCome # {}
    /\ NextEpisode \in m_exists
    /\ m_outcome' = [m_outcome EXCEPT ![NextEpisode] = "skipped"]
    /\ m_success' = m_success + 1
    /\ m_idx' = NextEpisode
    /\ UNCHANGED <<m_caller, m_eps, m_exists, m_err, m_log, m_pc>>
    /\ UNCHANGED notMain

\* download, lines 991-992: "Processing episode", then
\* self.download_episode(url, path, quality).  The class defines
\* _download_episode (line 858) and download_episodes (line 896) but no
\* download_episode: the attribute lookup raises AttributeError, which download
\* does not catch.
DownloadCallEpisode ==
    /\ m_pc = "loop"
    /\ ToCome # {}
    /\ NextEpisode \notin m_exists
    /\ m_log' = Append(m_log, "Processing episode")
    /\ m_err' = "AttributeError"
    /\ m_idx' = NextEpisode
    /\ m_pc' = "done"
    /\ UNCHANGED <<m_caller, m_eps, m_exists, m_outcome, m_success>>
    /\ UNCHANGED notMain

\* download, line 996: the loop is over: "Completed: success/len(eps)".
DownloadReport ==
    /\ m_pc = "loop"
    /\ ToCome = {}
    /\ m_log' = Append(m_log, "Completed")
    /\ m_pc' = "done"
    /\ UNCHANGED <<m_caller, m_eps, m_exists, m_outcome, m_idx, m_success, m_err>>
    /\ UNCHANGED notMain

MainNext ==
    \/ \E found \in BOOLEAN : MainSearch(found)
    \/ MainCallDownload
    \/ MainExcept
    \/ MainFinally
    \/ DownloadFetch
    \/ DownloadSkip
    \/ DownloadCallEpisode
    \/ DownloadReport

\* The messages logged so far.
Logged == {m_log[i] : i \in 1..Len(m_log)}

\* C31: when main, having found the anime, has finished, every episode in the
\* range whose output file did not exist has been driven through the pipeline
\* (_download_episode) and a success or failure result has been obtained for
\* it.
C31_EveryMissingEpisodeIsDriven ==
    (m_caller = "main" /\ m_pc = "done" /\ "Selected title" \in Logged) =>
        \A n \in m_eps \ m_exists : m_outcome[n] \in {"ok", "failed"}

(***************************************************************************)
(* Browser commands of the parallel workers of download_episodes (v2)      *)
(***************************************************************************)
\* The threads of ThreadPoolExecutor(max_workers=workers), lines 939-946.
ParWorkers == 1..BatchWorkers

\* The browsers of the pool, one per worker at most (max_size = max_workers,
\* line 216), and the primary browser self.driver (line 219).
PoolBrowsers == 1..BatchWorkers
PrimaryDriver == BatchWorkers + 1

\* retry=3 of _req (line 316).
DriveRetry == 3

DriveInit ==
    /\ x_pc = [w \in ParWorkers |-> "idle"]
    /\ x_lease = [w \in ParWorkers |-> NoBrowser]
    /\ x_driving = [w \in ParWorkers |-> NoBrowser]
    /\ x_attempt = [w \in ParWorkers |-> 0]

\* No worker thread exists.
DriveIdle ==
    /\ x_pc = [w \in ParWorkers |-> "off"]
    /\ x_lease = [w \in ParWorkers |-> NoBrowser]
    /\ x_driving = [w \in ParWorkers |-> NoBrowser]
    /\ x_attempt = [w \in ParWorkers |-> 0]

\* Lines 945, 863, 867, 427: a thread of the executor runs _download_episode:
\* get_browser hands it a browser no other task holds, and
\* _extract_download_links(episode_url, browser, quality) calls
\* self._req(episode_url).
DriveTask(w) ==
    /\ x_pc[w] = "idle"
    /\ \E b \in PoolBrowsers \ {x_lease[v] : v \in ParWorkers} :
           x_lease' = [x_lease EXCEPT ![w] = b]
    /\ x_pc' = [x_pc EXCEPT ![w] = "req"]
    /\ UNCHANGED <<x_driving, x_attempt>>
    /\ UNCHANGED notDrive

\* _extract_download_links, lines 429-436: _req returned None or a status
\* other than 200: driver.get(episode_url) on the browser passed in, the
\* worker's own.
OwnGet(w) ==
    /\ x_pc' = [x_pc EXCEPT ![w] = "own_get"]
    /\ x_driving' = [x_driving EXCEPT ![w] = x_lease[w]]

\* _req, lines 349-356: the attempt raised: back off and try again; after the
\* last attempt _req returns None.
NextAttempt(w) ==
    /\ x_attempt' = [x_attempt EXCEPT ![w] = x_attempt[w] + 1]
    /\ IF x_attempt[w] + 1 < DriveRetry
       THEN /\ x_pc' = [x_pc EXCEPT ![w] = "req"]
            /\ x_driving' = [x_driving EXCEPT ![w] = NoBrowser]
       ELSE OwnGet(w)

\* _req, lines 323-330 and 347: resp = self.sess.get(url).  A challenge page
\* starts self.driver.get(url) on the primary browser, with no lock taken;
\* any other response is returned to _extract_download_links.
DriveRequest(w, resp) ==
    /\ x_pc[w] = "req"
    /\ CASE resp = "ok" ->
                /\ x_pc' = [x_pc EXCEPT ![w] = "parse"]
                /\ UNCHANGED <<x_driving, x_attempt>>
         [] resp = "status" ->
                /\ OwnGet(w)
                /\ UNCHANGED x_attempt
         [] resp = "challenge" ->
                /\ x_pc' = [x_pc EXCEPT ![w] = "primary_get"]
                /\ x_driving' = [x_driving EXCEPT ![w] = PrimaryDriver]
                /\ UNCHANGED x_attempt
         [] resp = "raise" -> NextAttempt(w)
    /\ UNCHANGED x_lease
    /\ UNCHANGED notDrive

\* _req, lines 330-331: self.driver.get(url) returns or raises.
DrivePrimaryDone(w, ok) ==
    /\ x_pc[w] = "primary_get"
    /\ IF ok
       THEN /\ x_pc' = [x_pc EXCEPT ![w] = "cookies"]
            /\ x_driving' = [x_driving EXCEPT ![w] = NoBrowser]
            /\ UNCHANGED x_attempt
       ELSE NextAttempt(w)
    /\ UNCHANGED x_lease
    /\ UNCHANGED notDrive

\* _req, lines 334-347: the wait for the body and get_cookies (taken as
\* instantaneous), the cookies set on the session, the request repeated and
\* its response returned.
DriveSecondGet(w, ok) ==
    /\ x_pc[w] = "cookies"
    /\ IF ok
       THEN /\ x_pc' = [x_pc EXCEPT ![w] = "parse"]
            /\ UNCHANGED x_driving
       ELSE OwnGet(w)
    /\ UNCHANGED <<x_lease, x_attempt>>
    /\ UNCHANGED notDrive

\* _extract_download_links, lines 432-438: driver.get(episode_url) and the
\* wait for the menu are over.
DriveOwnDone(w) ==
    /\ x_pc[w] = "own_get"
    /\ x_pc' = [x_pc EXCEPT ![w] = "parse"]
    /\ x_driving' = [x_driving EXCEPT ![w] = NoBrowser]
    /\ UNCHANGED <<x_lease, x_attempt>>
    /\ UNCHANGED notDrive

\* Lines 871-894: the task ends and has returned its browser to the pool.
DriveFinish(w) ==
    /\ x_pc[w] = "parse"
    /\ x_pc' = [x_pc EXCEPT ![w] = "done"]
    /\ x_lease' = [x_lease EXCEPT ![w] = NoBrowser]
    /\ UNCHANGED <<x_driving, x_attempt>>
    /\ UNCHANGED notDrive

DriveNext ==
    \/ \E w \in ParWorkers : DriveTask(w)
    \/ \E w \in ParWorkers, resp \in {"ok", "status", "challenge", "raise"} :
           DriveRequest(w, resp)
    \/ \E w \in ParWorkers, ok \in BOOLEAN : DrivePrimaryDone(w, ok)
    \/ \E w \in ParWorkers, ok \in BOOLEAN : DriveSecondGet(w, ok)
    \/ \E w \in ParWorkers : DriveOwnDone(w)
    \/ \E w \in ParWorkers : DriveFinish(w)

\* C36: no browser is driven by two threads at once: a command to a leased
\* browser comes from the worker that holds the lease, and the primary browser
\* self.driver is never navigated by two workers at the same time.
C36_NoBrowserDrivenByTwoThreads ==
    \A w1, w2 \in ParWorkers :
        (w1 # w2 /\ x_driving[w1] # NoBrowser) =>
            /\ x_driving[w1] # x_lease[w2]
            /\ x_driving[w1] # x_driving[w2]

(***************************************************************************)
(* Specifications: one component runs, the others rest in a fixed state.   *)
(***************************************************************************)
InitThrottle ==
    /\ ThrottlerInit
    /\ PoolInit
    /\ QualityIdle
    /\ DetectIdle
    /\ FetchIdle
    /\ OrchIdle
    /\ DownloadFileIdle
    /\ ReqIdle
    /\ PipeIdle
    /\ CloseAllIdle
    /\ KwikIdle
    /\ EpageIdle
    /\ MainIdle
    /\ DriveIdle
SpecThrottle == InitThrottle /\ [][ThrottlerNext]_vars

InitPool ==
    /\ PoolInit
    /\ ThrottlerInit
    /\ QualityIdle
    /\ DetectIdle
    /\ FetchIdle
    /\ OrchIdle
    /\ DownloadFileIdle
    /\ ReqIdle
    /\ PipeIdle
    /\ CloseAllIdle
    /\ KwikIdle
    /\ EpageIdle
    /\ MainIdle
    /\ DriveIdle
SpecPool == InitPool /\ [][PoolNext]_vars

InitQuality ==
    /\ QualityInit
    /\ ThrottlerInit
    /\ PoolInit
    /\ DetectIdle
    /\ FetchIdle
    /\ OrchIdle
    /\ DownloadFileIdle
    /\ ReqIdle
    /\ PipeIdle
    /\ CloseAllIdle
    /\ KwikIdle
    /\ EpageIdle
    /\ MainIdle
    /\ DriveIdle
SpecQuality == InitQuality /\ [][QualityNext]_vars

InitDetect ==
    /\ DetectInit
    /\ ThrottlerInit
    /\ PoolInit
    /\ QualityIdle
    /\ FetchIdle
    /\ OrchIdle
    /\ DownloadFileIdle
    /\ ReqIdle
    /\ PipeIdle
    /\ CloseAllIdle
    /\ KwikIdle
    /\ EpageIdle
    /\ MainIdle
    /\ DriveIdle
SpecDetect == InitDetect /\ [][DetectNext]_vars

InitFetch ==
    /\ FetchInit
    /\ ThrottlerInit
    /\ PoolInit
    /\ QualityIdle
    /\ DetectIdle
    /\ OrchIdle
    /\ DownloadFileIdle
    /\ ReqIdle
    /\ PipeIdle
    /\ CloseAllIdle
    /\ KwikIdle
    /\ EpageIdle
    /\ MainIdle
    /\ DriveIdle
SpecFetch == InitFetch /\ [][FetchNext]_vars
\* fetch_episodes runs on one thread that is never stopped for good.
FairSpecFetch == SpecFetch /\ WF_vars(FetchNext)

InitOrch ==
    /\ OrchInit
    /\ ThrottlerInit
    /\ PoolInit
    /\ QualityIdle
    /\ DetectIdle
    /\ FetchIdle
    /\ DownloadFileIdle
    /\ ReqIdle
    /\ PipeIdle
    /\ CloseAllIdle
    /\ KwikIdle
    /\ EpageIdle
    /\ MainIdle
    /\ DriveIdle
SpecOrch == InitOrch /\ [][OrchNext]_vars

InitDownloadFile ==
    /\ DownloadFileInit
    /\ ThrottlerInit
    /\ PoolInit
    /\ QualityIdle
    /\ DetectIdle
    /\ FetchIdle
    /\ OrchIdle
    /\ ReqIdle
    /\ PipeIdle
    /\ CloseAllIdle
    /\ KwikIdle
    /\ EpageIdle
    /\ MainIdle
    /\ DriveIdle
SpecDownloadFile == InitDownloadFile /\ [][DownloadFileNext]_vars

InitReq ==
    /\ ReqInit
    /\ ThrottlerInit
    /\ PoolInit
    /\ QualityIdle
    /\ DetectIdle
    /\ FetchIdle
    /\ OrchIdle
    /\ DownloadFileIdle
    /\ PipeIdle
    /\ CloseAllIdle
    /\ KwikIdle
    /\ EpageIdle
    /\ MainIdle
    /\ DriveIdle
SpecReq == InitReq /\ [][ReqNext]_vars
\* _req runs on one thread that is never stopped for good.
FairSpecReq == SpecReq /\ WF_vars(ReqNext)

InitPipe ==
    /\ PipeInit
    /\ ThrottlerInit
    /\ PoolInit
    /\ QualityIdle
    /\ DetectIdle
    /\ FetchIdle
    /\ OrchIdle
    /\ DownloadFileIdle
    /\ ReqIdle
    /\ CloseAllIdle
    /\ KwikIdle
    /\ EpageIdle
    /\ MainIdle
    /\ DriveIdle
SpecPipe == InitPipe /\ [][PipeNext]_vars

InitPoolClose ==
    /\ CloseAllInit
    /\ ThrottlerInit
    /\ PoolInit
    /\ QualityIdle
    /\ DetectIdle
    /\ FetchIdle
    /\ OrchIdle
    /\ DownloadFileIdle
    /\ ReqIdle
    /\ PipeIdle
    /\ KwikIdle
    /\ EpageIdle
    /\ MainIdle
    /\ DriveIdle
SpecPoolClose == InitPoolClose /\ [][PoolCloseNext]_vars

InitKwik ==
    /\ KwikInit
    /\ ThrottlerInit
    /\ PoolInit
    /\ QualityIdle
    /\ DetectIdle
    /\ FetchIdle
    /\ OrchIdle
    /\ DownloadFileIdle
    /\ ReqIdle
    /\ PipeIdle
    /\ CloseAllIdle
    /\ EpageIdle
    /\ MainIdle
    /\ DriveIdle
SpecKwik == InitKwik /\ [][KwikNext]_vars

InitEpage ==
    /\ EpageInit
    /\ ThrottlerInit
    /\ PoolInit
    /\ QualityIdle
    /\ DetectIdle
    /\ FetchIdle
    /\ OrchIdle
    /\ DownloadFileIdle
    /\ ReqIdle
    /\ PipeIdle
    /\ CloseAllIdle
    /\ KwikIdle
    /\ MainIdle
    /\ DriveIdle
SpecEpage == InitEpage /\ [][EpageNext]_vars

InitMain ==
    /\ MainInit
    /\ ThrottlerInit
    /\ PoolInit
    /\ QualityIdle
    /\ DetectIdle
    /\ FetchIdle
    /\ OrchIdle
    /\ DownloadFileIdle
    /\ ReqIdle
    /\ PipeIdle
    /\ CloseAllIdle
    /\ KwikIdle
    /\ EpageIdle
    /\ DriveIdle
SpecMain == InitMain /\ [][MainNext]_vars

InitDrive ==
    /\ DriveInit
    /\ ThrottlerInit
    /\ PoolInit
    /\ QualityIdle
    /\ DetectIdle
    /\ FetchIdle
    /\ OrchIdle
    /\ DownloadFileIdle
    /\ ReqIdle
    /\ PipeIdle
    /\ CloseAllIdle
    /\ KwikIdle
    /\ EpageIdle
    /\ MainIdle
SpecDrive == InitDrive /\ [][DriveNext]_vars

=============================================================================
